---- MODULE Spec2Model ----
(***************************************************************************)
(* Social-Media-Agent: the post scheduler (PostScheduler over an           *)
(* APScheduler AsyncIOScheduler), the posts table it reads and writes and  *)
(* the platform registry it publishes through.                             *)
(*                                                                         *)
(* The data store is taken to answer every call (no SQL failure); the      *)
(* platform adapters fail softly, as their code does.  Coroutines          *)
(* interleave at their awaits: a publish run is cut at `await              *)
(* adapter.post(...)`, the one slow suspension point of _publish_post.     *)
(*                                                                         *)
(* The second half models the platform registry and the adapters           *)
(* themselves (PlatformAdapter and its four subclasses over a Playwright   *)
(* browser) and the services that drive them.  A browser step, a cookie    *)
(* file write and the generation service can each fail; which one fails is *)
(* an input of the action.  An adapter method is one action: it is awaited *)
(* by a single caller and shares nothing with other adapters but the       *)
(* cookie file.  In a poll of the auto-responder the loads of the products *)
(* and of the FAQs can fail as well.                                       *)
(*                                                                         *)
(* The FAQ matcher and the scoring, deduplication and ranking of leads are *)
(* functions of their arguments: they are operators over strings kept as   *)
(* sequences of characters, and FunctionSpec calls each on bounded inputs. *)
(*                                                                         *)
(* CookieSpec cuts save_cookies at its statements and lets the process     *)
(* die between them.  DiscoverySpec is one call of the lead discovery      *)
(* service, a run of search_leads taken search by search.                  *)
(***************************************************************************)
EXTENDS Integers, Sequences, FiniteSets, TLC

\* ------------------------------------------------------------------ bounds
NumPosts  == 2      \* post ids 1..NumPosts
MaxTime   == 1      \* the clock and every timestamp range over 0..MaxTime

MaxAdapters == 2    \* adapter objects constructed in one run
MaxShown    == 2    \* elements on a results or notifications page
MaxLimit    == 2    \* the limit a search is called with

MaxLen      == 3    \* characters of a query, question or keyword string
MaxFaqs     == 3    \* FAQ rows of a product
MaxWords    == 4    \* words of a search result text
MaxRaw      == 3    \* raw results of a run, and how far past TopLeads they go

\* ------------------------------------------------------- program constants
None_        == -1  \* a NULL scheduled_at
MaxInstances == 1   \* APScheduler's job default: no max_instances is passed
MentionsCap  == 20  \* get_mentions reads notifications[:20]
TopLeads     == 20  \* search_leads returns unique_leads[:20]

Posts     == 1..NumPosts
Times     == 0..MaxTime
Platforms == {"twitter", "myspace"}
Registered == {"twitter", "instagram", "facebook", "linkedin"}
Statuses  == {"draft", "scheduled", "published", "failed"}

VARIABLES
  status,       \* posts table: Post.status, "absent" for an id not created yet
  scheduled_at, \* posts table: Post.scheduled_at, None_ when NULL
  platform,     \* posts table: Post.platform
  now,          \* the wall clock
  running,      \* self.scheduler.running
  is_running,   \* PostScheduler.is_running
  jobs,         \* the job store (the pending jobs while stopped): job records
  runs,         \* job executions in flight on the event loop: run records
  activity,     \* the activity log, as the set of entries ever appended
  postedBy,     \* history (Spec): which kind of run called adapter.post for a post
  lastOp,       \* history (CallSpec): the scheduler call or event of the last step,
                \* <<name, post, detail>>
  raised        \* the last operation let an exception escape to its caller

sched_vars == <<status, scheduled_at, platform, now, running, is_running, jobs, runs,
                activity, postedBy, lastOp, raised>>

VARIABLES
  registry_adapters, \* PlatformRegistry._adapters: lower-cased name -> class
  registered_names,  \* history: the names handed to register() so far
  heap,              \* the adapter objects constructed so far; an object's
                     \* identity is its index
  cookies,           \* the cookie files, one per adapter class: the object
                     \* whose cookies the file holds, 0 when there is no file,
                     \* -n while the file is open for writing by object n
                     \* (it is empty or holds a part of the blob)
  last,              \* the last call made on the registry, an adapter or a
                     \* service: its arguments, what it returned, whether it raised
  last_check,        \* AutoResponder._last_check: platform -> cursor
  poll,              \* the service calls in flight, if any: a check_and_respond,
                     \* a search_leads, or the save_cookies calls of adapters
  handled,           \* history: the mentions processed by completed polls
  ar_is_running,     \* AutoResponder.is_running
  engagement_queue   \* table engagement_queue: the EngagementQueue rows

agent_vars == <<registry_adapters, registered_names, heap, cookies, last,
                last_check, poll, handled, ar_is_running, engagement_queue>>

responder_vars == <<last_check, poll, handled, ar_is_running, engagement_queue>>

vars == <<sched_vars, agent_vars>>

posts_vars == <<status, scheduled_at, platform>>

\* ------------------------------------------------------------------ jobs
SweepId == <<"check_posts", 0>>
JobId(p) == <<"publish_post", p>>
SweepJob == [id |-> SweepId, run_date |-> None_]
DateJob(p, t) == [id |-> JobId(p), run_date |-> t]

JobIds(js) == {j.id : j \in js}
JobsOf(js, id) == {j \in js : j.id = id}

\* BaseScheduler.remove_job: drops the job with that id
RemoveJob(js, id) == js \ JobsOf(js, id)

\* BaseScheduler.add_job: with replace_existing the job with the same id is
\* replaced; without it the add is refused (ConflictingIdError)
AddJob(js, job, replace_existing) ==
  IF job.id \in JobIds(js)
    THEN IF replace_existing THEN RemoveJob(js, job.id) \cup {job} ELSE js
    ELSE js \cup {job}

\* the executions of a job in flight (the executor's _instances[job.id])
Instances(id) == {r \in runs : r.job = id}

\* --------------------------------------------------------------- registry
\* PlatformRegistry.get_adapter: TRUE when an adapter is returned, FALSE when
\* it raises ValueError
get_adapter(pf) == pf \in Registered

\* the platform names a caller may pass, and str.lower on them
CasedNames == {"twitter", "Twitter", "instagram", "Instagram", "facebook", "FACEBOOK",
               "linkedin", "myspace", "MySpace"}

lower(name) ==
  CASE name \in {"twitter", "Twitter"} -> "twitter"
    [] name \in {"facebook", "FACEBOOK"} -> "facebook"
    [] name \in {"myspace", "MySpace"} -> "myspace"
    [] name = "Instagram" -> "instagram"
    [] name \in {"PRICE?", "Price?"} -> "price?"
    [] name = "Ship" -> "ship"
    [] name = "Greeting" -> "greeting"
    [] name = "Shipping" -> "shipping"
    [] name = "Price" -> "price"
    [] OTHER -> name

LowerNames == {"twitter", "instagram", "facebook", "linkedin", "myspace"}

NoClass == "None"
Classes == {"TwitterAdapter", "InstagramAdapter", "FacebookAdapter", "LinkedInAdapter"}

\* platforms/__init__.py: the registrations made when the package is imported
Registrations ==
  << <<"twitter", "TwitterAdapter">>, <<"instagram", "InstagramAdapter">>,
     <<"facebook", "FacebookAdapter">>, <<"linkedin", "LinkedInAdapter">> >>

NoCall == [op |-> "none"]

\* the platforms the auto-responder is asked to poll
PollPlatforms == {"twitter", "Instagram", "myspace"}

NoPoll == [pc |-> "idle"]

\* `self._last_check.get(platform)` for a platform never polled: None
NoCursor == <<>>

\* PlatformRegistry.__init__ and the state before any adapter exists
AgentInit ==
  /\ registry_adapters = [n \in LowerNames |-> NoClass]
  /\ registered_names = {}
  /\ heap = <<>>
  /\ cookies = [c \in Classes |-> 0]
  /\ last = NoCall
  /\ last_check = [pf \in PollPlatforms |-> NoCursor]
  /\ ar_is_running = FALSE
  /\ poll = NoPoll
  /\ handled = {}
  /\ engagement_queue = <<>>

\* ------------------------------------------------------------------ init
Init ==
  /\ AgentInit
  /\ status = [p \in Posts |-> "absent"]
  /\ scheduled_at = [p \in Posts |-> None_]
  /\ platform = [p \in Posts |-> "twitter"]
  /\ now = 0
  /\ running = FALSE
  /\ is_running = FALSE
  /\ jobs = {}
  /\ runs = {}
  /\ activity = {}
  /\ postedBy = [p \in Posts |-> {}]
  /\ lastOp = <<"init", 0, 0>>
  /\ raised = FALSE

\* --------------------------------------------------------------- actions
\* The actions below are the operations themselves; the history variables
\* lastOp and postedBy are written by the specifications that record them.

\* database.create_post: the next id, with the caller's status, fire-at and platform
create_post(st, at, pf) ==
  /\ \E p \in Posts :
       /\ status[p] = "absent"
       /\ \A q \in Posts : q < p => status[q] # "absent"
       /\ status' = [status EXCEPT ![p] = st]
       /\ scheduled_at' = [scheduled_at EXCEPT ![p] = at]
       /\ platform' = [platform EXCEPT ![p] = pf]
  /\ raised' = FALSE
  /\ UNCHANGED <<now, running, is_running, jobs, runs, activity>>

\* the clock advances
AdvanceTime ==
  /\ now < MaxTime
  /\ now' = now + 1
  /\ raised' = FALSE
  /\ UNCHANGED <<posts_vars, running, is_running, jobs, runs, activity>>

\* ------------------------------------------------------- PostScheduler
\* PostScheduler.start: starts the underlying scheduler when it is not running
\* and registers the recurring sweep job 'check_posts'
start ==
  /\ IF ~running
       THEN /\ running' = TRUE
            /\ is_running' = TRUE
            /\ jobs' = AddJob(jobs, SweepJob, TRUE)
       ELSE UNCHANGED <<running, is_running, jobs>>
  /\ raised' = FALSE
  /\ UNCHANGED <<posts_vars, now, runs, activity>>

\* stop() that forgets to clear is_running
stop_keeps_flag ==
  /\ IF running
       THEN /\ running' = FALSE
            /\ jobs' = {}
            /\ runs' = {}
            /\ UNCHANGED is_running
       ELSE UNCHANGED <<running, is_running, jobs, runs>>
  /\ raised' = FALSE
  /\ UNCHANGED <<posts_vars, now, activity>>

\* PostScheduler.stop: scheduler.shutdown(wait=False) empties the memory job
\* store and cancels the coroutine jobs in flight
stop ==
  /\ IF running
       THEN /\ running' = FALSE
            /\ is_running' = FALSE
            /\ jobs' = {}
            /\ runs' = {}
       ELSE UNCHANGED <<running, is_running, jobs, runs>>
  /\ raised' = FALSE
  /\ UNCHANGED <<posts_vars, now, activity>>

\* schedule_post that adds the new job beside the prior one
schedule_post_keeps_prior(p, t) ==
  /\ jobs' = jobs \cup {DateJob(p, t)}
  /\ raised' = FALSE
  /\ UNCHANGED <<posts_vars, now, running, is_running, runs, activity>>

\* PostScheduler.schedule_post: removes the post's one-shot job when there is
\* one, then adds the job for run_date t
schedule_post(p, t) ==
  /\ jobs' = AddJob(IF JobId(p) \in JobIds(jobs) THEN RemoveJob(jobs, JobId(p)) ELSE jobs,
                    DateJob(p, t), TRUE)
  /\ raised' = FALSE
  /\ UNCHANGED <<posts_vars, now, running, is_running, runs, activity>>

\* cancel_scheduled_post that builds another job id than schedule_post
cancel_wrong_job_id(p) ==
  /\ jobs' = RemoveJob(jobs, <<"publish", p>>)
  /\ raised' = FALSE
  /\ UNCHANGED <<posts_vars, now, running, is_running, runs, activity>>

\* cancel_scheduled_post without its try/except: JobLookupError escapes
cancel_unguarded(p) ==
  /\ jobs' = RemoveJob(jobs, JobId(p))
  /\ raised' = (JobId(p) \notin JobIds(jobs))
  /\ UNCHANGED <<posts_vars, now, running, is_running, runs, activity>>

\* a cancel that also takes the post back to a draft
cancel_unschedules_post(p) ==
  /\ jobs' = RemoveJob(jobs, JobId(p))
  /\ status' = [status EXCEPT ![p] = IF @ = "scheduled" THEN "draft" ELSE @]
  /\ raised' = FALSE
  /\ UNCHANGED <<scheduled_at, platform, now, running, is_running, runs, activity>>

\* PostScheduler.cancel_scheduled_post: remove_job, its JobLookupError swallowed
cancel_scheduled_post(p) ==
  /\ jobs' = RemoveJob(jobs, JobId(p))
  /\ raised' = FALSE
  /\ UNCHANGED <<posts_vars, now, running, is_running, runs, activity>>

\* ---------------------------------------------------------- job firing
\* a new execution of job id over the posts of list; inst tells concurrent
\* executions of one job apart
NewRun(id, list) ==
  [job |-> id, inst |-> Cardinality(Instances(id)) + 1, list |-> list, idx |-> 1,
   pc |-> "begin"]

\* a sweep that takes only the posts whose fire-at lies strictly in the past
IsDueStrictlyPast(p) ==
  /\ status[p] = "scheduled"
  /\ scheduled_at[p] # None_
  /\ scheduled_at[p] < now

\* check_due_posts, lines 77-81: the posts the sweep selects
IsDue(p) ==
  /\ status[p] = "scheduled"
  /\ scheduled_at[p] # None_
  /\ scheduled_at[p] <= now

\* get_posts orders by scheduled_at descending; the order of equal
\* timestamps is the database's choice
DueLists ==
  LET D == {p \in Posts : IsDue(p)}
      n == Cardinality(D)
  IN {s \in [1..n -> D] :
        /\ \A i, j \in 1..n : i # j => s[i] # s[j]
        /\ \A i, j \in 1..n : i < j => scheduled_at[s[i]] >= scheduled_at[s[j]]}

SweepInFlight == Instances(SweepId) # {}

\* the sweep job with no limit on its concurrent executions
IntervalTickUnlimited ==
  /\ running
  /\ SweepJob \in jobs
  /\ \E list \in DueLists :
       runs' = IF list = <<>> THEN runs ELSE runs \cup {NewRun(SweepId, list)}
  /\ raised' = FALSE
  /\ UNCHANGED <<posts_vars, now, running, is_running, jobs, activity>>

\* the interval trigger of 'check_posts' fires: check_due_posts starts unless
\* an execution of it is still in flight (then the tick is skipped)
IntervalTick ==
  /\ running
  /\ SweepJob \in jobs
  /\ IF Cardinality(Instances(SweepId)) >= MaxInstances
       THEN UNCHANGED runs
       ELSE \E list \in DueLists :
              runs' = IF list = <<>> THEN runs ELSE runs \cup {NewRun(SweepId, list)}
  /\ raised' = FALSE
  /\ UNCHANGED <<posts_vars, now, running, is_running, jobs, activity>>

\* the date trigger of a one-shot job fires: the job leaves the store; it is
\* dropped as missed when it is late, skipped when an execution of the same
\* job id is in flight, and else publish_post(p) starts (lines 86-93: a post
\* id with no row ends the run at once)
RunDateJob(p) ==
  /\ running
  /\ \E j \in JobsOf(jobs, JobId(p)) :
       /\ j.run_date <= now
       /\ jobs' = jobs \ {j}
       /\ IF \/ j.run_date < now
             \/ Cardinality(Instances(JobId(p))) >= MaxInstances
             \/ status[p] = "absent"
            THEN UNCHANGED runs
            ELSE runs' = runs \cup {NewRun(JobId(p), <<p>>)}
  /\ raised' = FALSE
  /\ UNCHANGED <<posts_vars, now, running, is_running, activity>>

\* ---------------------------------------------------------- _publish_post
RunKind(r) == IF r.job = SweepId THEN "sweep" ELSE "oneshot"

\* the post a run is at
Current(r) == r.list[r.idx]

\* the run goes on to its next post, or ends after the last one
Advance(r) ==
  IF r.idx < Len(r.list)
    THEN (runs \ {r}) \cup {[r EXCEPT !.idx = @ + 1, !.pc = "begin"]}
    ELSE runs \ {r}

\* _publish_post without its outer try/except: the registry's ValueError
\* escapes and ends the run
publish_begin_unhandled(r) ==
  /\ r.pc = "begin"
  /\ IF get_adapter(platform[Current(r)])
       THEN /\ runs' = (runs \ {r}) \cup {[r EXCEPT !.pc = "posting"]}
            /\ raised' = FALSE
       ELSE /\ runs' = runs \ {r}
            /\ raised' = TRUE
  /\ UNCHANGED <<posts_vars, now, running, is_running, jobs, activity>>

\* _publish_post, lines 99-106 and 115-117: the adapter is looked up; an
\* unsupported platform marks the post failed, else adapter.post is awaited
publish_begin(r) ==
  /\ r.pc = "begin"
  /\ IF get_adapter(platform[Current(r)])
       THEN /\ runs' = (runs \ {r}) \cup {[r EXCEPT !.pc = "posting"]}
            /\ UNCHANGED status
       ELSE /\ status' = [status EXCEPT ![Current(r)] = "failed"]
            /\ runs' = Advance(r)
  /\ raised' = FALSE
  /\ UNCHANGED <<scheduled_at, platform, now, running, is_running, jobs, activity>>

\* _publish_post, lines 106-109: adapter.post returned ok (the adapters turn
\* every failure into False); the result is not looked at
post_returned(r, ok) ==
  /\ r.pc = "posting"
  /\ status' = [status EXCEPT ![Current(r)] = "published"]
  /\ activity' = activity \cup {<<"Published post", Current(r)>>}
  /\ runs' = Advance(r)
  /\ raised' = FALSE
  /\ UNCHANGED <<scheduled_at, platform, now, running, is_running, jobs>>

\* ------------------------------------------------------- specifications
\* the posts callers create: drafts as the dashboard saves them
\* (scheduled_at = utcnow), scheduled posts with any fire-at, NULL included
CreateInputs ==
  {c \in [st : {"draft", "scheduled"}, at : Times \cup {None_}, pf : Platforms] :
     c.st = "draft" => c.at = now}

NoHist == UNCHANGED <<lastOp, postedBy, agent_vars>>

\* a publish run takes its next step, recording who calls adapter.post
BeginStep(r) ==
  /\ publish_begin(r)
  /\ postedBy' = IF get_adapter(platform[Current(r)])
                   THEN [postedBy EXCEPT ![Current(r)] = @ \cup {RunKind(r)}]
                   ELSE postedBy
  /\ UNCHANGED <<lastOp, agent_vars>>

ReturnStep(r) == \E ok \in BOOLEAN : post_returned(r, ok) /\ NoHist

\* Spec: every operation, with the history of who called adapter.post
Next ==
  \/ \E c \in CreateInputs : create_post(c.st, c.at, c.pf) /\ NoHist
  \/ AdvanceTime /\ NoHist
  \/ start /\ NoHist
  \/ stop /\ NoHist
  \/ \E p \in Posts, t \in Times : schedule_post(p, t) /\ NoHist
  \/ \E p \in Posts : cancel_scheduled_post(p) /\ NoHist
  \/ IntervalTick /\ NoHist
  \/ \E p \in Posts : RunDateJob(p) /\ NoHist
  \/ \E r \in runs : BeginStep(r)
  \/ \E r \in runs : ReturnStep(r)

Spec == Init /\ [][Next]_vars

\* CallSpec: every operation, with the history of the last scheduler call
Quiet == <<"step", 0, 0>>
Call(op) == lastOp' = op /\ UNCHANGED <<postedBy, agent_vars>>

\* the interval trigger fires
SweepTick == IntervalTick /\ Call(IF SweepInFlight THEN <<"tick_skipped", 0, 0>> ELSE Quiet)

\* a publish run takes its next step
RunStep(r) ==
  \/ publish_begin(r) /\ Call(Quiet)
  \/ \E ok \in BOOLEAN : post_returned(r, ok) /\ Call(Quiet)

CallNext ==
  \/ \E c \in CreateInputs : create_post(c.st, c.at, c.pf) /\ Call(Quiet)
  \/ AdvanceTime /\ Call(Quiet)
  \/ start /\ Call(IF running THEN lastOp ELSE <<"start", 0, 0>>)
  \/ stop /\ Call(IF running THEN <<"stop", 0, 0>> ELSE lastOp)
  \/ \E p \in Posts, t \in Times :
       schedule_post(p, t)
         /\ Call(<<IF \E j \in JobsOf(jobs, JobId(p)) : j.run_date # t
                     THEN "reschedule_post" ELSE "schedule_post", p, t>>)
  \/ \E p \in Posts :
       cancel_scheduled_post(p)
         /\ Call(<<"cancel_scheduled_post", p, IF JobId(p) \in JobIds(jobs) THEN 1 ELSE 0>>)
  \/ SweepTick
  \/ \E p \in Posts : RunDateJob(p) /\ Call(Quiet)
  \/ \E r \in runs : RunStep(r)

CallSpec == Init /\ [][CallNext]_vars

\* LiveSpec: CallSpec with the scheduling the event loop gives the sweep: the
\* interval trigger keeps firing while the scheduler runs, and a sweep in
\* flight takes its next step (every await of _publish_post returns: the
\* adapters' waits carry timeouts)
SweepSteps == \E r \in Instances(SweepId) : RunStep(r)

LiveSpec == CallSpec /\ WF_vars(SweepTick) /\ WF_vars(SweepSteps)

\* ======================================================= registry, adapters
\* PlatformRegistry.register, as platforms/__init__.py calls it on import
register(name, cls) ==
  /\ registry_adapters' = [registry_adapters EXCEPT ![lower(name)] = cls]
  /\ registered_names' = registered_names \cup {name}
  /\ last' = [op |-> "register", args |-> <<name, cls>>, raised |-> FALSE]
  /\ UNCHANGED <<heap, cookies, responder_vars, sched_vars>>

ImportPackage ==
  \E i \in 1..Len(Registrations) :
    /\ i = Cardinality(registered_names) + 1
    /\ register(Registrations[i][1], Registrations[i][2])

Imported == Cardinality(registered_names) = Len(Registrations)

\* PlatformRegistry.list_platforms
list_platforms == {n \in LowerNames : registry_adapters[n] # NoClass}

\* PlatformAdapter.__init__: no browser, context or page, not logged in
NewAdapter(cls, username, password) ==
  [cls |-> cls, username |-> username, password |-> password,
   is_logged_in |-> FALSE, browser |-> FALSE, context |-> FALSE, page |-> FALSE]

\* a registry that hands out the adapter it already built for the class
Registry_get_adapter_cached(name, username, password) ==
  LET adapter_class == registry_adapters[lower(name)]
      old == {a \in 1..Len(heap) : heap[a].cls = adapter_class}
  IN /\ Imported
     /\ IF adapter_class = NoClass
          THEN /\ last' = [op |-> "get_adapter", args |-> <<name, username, password>>,
                           raised |-> TRUE]
               /\ UNCHANGED heap
          ELSE IF old # {}
            THEN /\ last' = [op |-> "get_adapter", args |-> <<name, username, password>>,
                             raised |-> FALSE, result |-> CHOOSE a \in old : TRUE]
                 /\ UNCHANGED heap
            ELSE /\ heap' = Append(heap, NewAdapter(adapter_class, username, password))
                 /\ last' = [op |-> "get_adapter", args |-> <<name, username, password>>,
                             raised |-> FALSE, result |-> Len(heap) + 1]
     /\ UNCHANGED <<registry_adapters, registered_names, cookies, responder_vars, sched_vars>>

\* PlatformRegistry.get_adapter: ValueError for a name not registered, else a
\* new object of the registered class
Registry_get_adapter(name, username, password) ==
  LET adapter_class == registry_adapters[lower(name)]
  IN /\ Imported
     /\ IF adapter_class = NoClass
          THEN /\ last' = [op |-> "get_adapter", args |-> <<name, username, password>>,
                           raised |-> TRUE]
               /\ UNCHANGED heap
          ELSE /\ heap' = Append(heap, NewAdapter(adapter_class, username, password))
               /\ last' = [op |-> "get_adapter", args |-> <<name, username, password>>,
                           raised |-> FALSE, result |-> Len(heap) + 1]
     /\ UNCHANGED <<registry_adapters, registered_names, cookies, responder_vars, sched_vars>>

\* the credential pairs a caller passes
Credentials == {<<"", "">>, <<"user", "pass">>}

\* RegistrySpec: the package import, then lookups
RegistryNext ==
  \/ ImportPackage
  \/ \E n \in CasedNames, c \in Credentials :
       Len(heap) < MaxAdapters /\ Registry_get_adapter(n, c[1], c[2])

RegistrySpec == Init /\ [][RegistryNext]_vars

\* ---------------------------------------------------------------- adapters
\* Where a call's browser work fails: launching the browser, opening the
\* context, opening the page, a navigation/selector/timeout step of the
\* method, reading or writing the cookies; "none" when nothing fails.
Fails == {"launch", "context", "page", "automation", "save", "none"}

\* PlatformAdapter.init_browser: returns at once when a browser is held
init_browser(ad, fail) ==
  IF ad.browser THEN [ad |-> ad, raised |-> FALSE]
  ELSE CASE fail = "launch" -> [ad |-> ad, raised |-> TRUE]
         [] fail = "context" -> [ad |-> [ad EXCEPT !.browser = TRUE], raised |-> TRUE]
         [] fail = "page" ->
              [ad |-> [ad EXCEPT !.browser = TRUE, !.context = TRUE], raised |-> TRUE]
         [] OTHER ->
              [ad |-> [ad EXCEPT !.browser = TRUE, !.context = TRUE, !.page = TRUE],
               raised |-> FALSE]

\* PlatformAdapter.save_cookies: writes the file when a context is held
save_cookies(ad, self, ck, fail) ==
  IF ad.context
    THEN IF fail = "save"
           THEN [cookies |-> ck, raised |-> TRUE, trace |-> <<>>]
           ELSE [cookies |-> [ck EXCEPT ![ad.cls] = self], raised |-> FALSE,
                 trace |-> <<"save_cookies">>]
    ELSE [cookies |-> ck, raised |-> FALSE, trace |-> <<>>]

\* a login that reports success without having the session
login_optimistic(ad, self, ck, fail) ==
  LET ib == init_browser(ad, fail)
  IN [ad |-> [ib.ad EXCEPT !.is_logged_in = ~ib.raised], cookies |-> ck,
      result |-> TRUE, trace |-> <<"login">>]

\* <Platform>Adapter.login (the four are alike): everything inside one try;
\* any exception gives False
login(ad, self, ck, fail) ==
  LET ib == init_browser(ad, fail)
      failed == [ad |-> ib.ad, cookies |-> ck, result |-> FALSE, trace |-> <<"login">>]
  IN IF ib.raised \/ ~ib.ad.page \/ fail = "automation"
       THEN failed
       ELSE LET sv == save_cookies(ib.ad, self, ck, fail)
            IN IF sv.raised
                 THEN failed
                 ELSE [ad |-> [ib.ad EXCEPT !.is_logged_in = TRUE],
                       cookies |-> sv.cookies, result |-> TRUE,
                       trace |-> <<"login">> \o sv.trace]

\* the head of every other method: `if not self.is_logged_in: await self.login()`
lazy_login(ad, self, ck, fail) ==
  IF ad.is_logged_in
    THEN [ad |-> ad, cookies |-> ck, trace |-> <<>>]
    ELSE LET lg == login(ad, self, ck, fail)
         IN [ad |-> lg.ad, cookies |-> lg.cookies, trace |-> lg.trace]

\* the write methods of an adapter
WriteKinds == {"post", "like", "comment", "follow"}

\* InstagramAdapter.post opens the new-post dialog and returns True: the
\* content is never submitted
Performs(cls, kind) == ~(cls = "InstagramAdapter" /\ kind = "post")

\* post / like / comment / follow: lazy login, result ignored, then the
\* browser steps inside a try; `ok` says whether those steps go through
act(ad, self, ck, kind, fail, ok) ==
  LET lg == lazy_login(ad, self, ck, fail)
  IN IF lg.ad.page /\ ok
       THEN [ad |-> lg.ad, cookies |-> lg.cookies, result |-> TRUE,
             trace |-> lg.trace \o (IF Performs(ad.cls, kind) THEN <<kind>> ELSE <<>>)]
       ELSE [ad |-> lg.ad, cookies |-> lg.cookies, result |-> FALSE, trace |-> lg.trace]

\* what a results or notifications page shows: elements in platform order;
\* reading a broken element raises and the element is skipped
Elements ==
  { [id |-> 1, user |-> "alice", text |-> "PRICE?", broken |-> FALSE],
    [id |-> 2, user |-> "bob", text |-> " hello ", broken |-> FALSE],
    [id |-> 3, user |-> "", text |-> "", broken |-> TRUE] }

\* the result elements for which no user name is read: `username` is then ""
NamelessElements == {[id |-> 4, user |-> "", text |-> "PRICE?", broken |-> FALSE]}

Element(i) == CHOOSE e \in Elements \cup NamelessElements : e.id = i

\* Python's s[:n] for n >= 0
Take(seq, n) == SubSeq(seq, 1, IF n < Len(seq) THEN n ELSE Len(seq))

\* str.strip
strip(text) ==
  CASE text = " hello " -> "hello"
    [] text = " Ship " -> "Ship"
    [] text = " Price" -> "Price"
    [] text = " " -> ""
    [] OTHER -> text

\* the record a search builds from one element (`of` names the element it was
\* read from; the code keeps no such id)
SearchRecord(cls, e) ==
  CASE cls = "TwitterAdapter" -> [of |-> e.id, username |-> e.user, text |-> e.text]
    [] cls = "LinkedInAdapter" ->
         [of |-> e.id, username |-> strip(e.text), text |-> strip(e.text)]
    [] OTHER -> [of |-> e.id, text |-> e.text]

\* the record get_mentions builds from one notification: its text only (`of`
\* names the element it was read from; the code keeps no such id)
MentionRecord(cls, e) == [of |-> e.id, text |-> e.text]

RECURSIVE Collect(_, _, _)
\* the for loop over the elements: one record per readable element
Collect(cls, elems, what) ==
  IF elems = <<>> THEN <<>>
  ELSE LET e == Element(Head(elems))
           rest == Collect(cls, Tail(elems), what)
       IN IF e.broken THEN rest
          ELSE <<IF what = "search" THEN SearchRecord(cls, e) ELSE MentionRecord(cls, e)>>
                 \o rest

\* <Platform>Adapter.search: lazy login, then the first `limit` elements of
\* the results page; Instagram's returns the empty list
search(ad, self, ck, limit, shown, fail, ok) ==
  LET lg == lazy_login(ad, self, ck, fail)
  IN [ad |-> lg.ad, cookies |-> lg.cookies, trace |-> lg.trace,
      result |-> IF lg.ad.page /\ ok /\ ad.cls # "InstagramAdapter"
                   THEN Collect(ad.cls, Take(shown, limit), "search")
                   ELSE <<>>]

\* <Platform>Adapter.get_mentions: since_id is never read; the first
\* MentionsCap notifications shown; Instagram's returns [] without a browser
get_mentions(ad, self, ck, since_id, shown, fail, ok) ==
  IF ad.cls = "InstagramAdapter"
    THEN [ad |-> ad, cookies |-> ck, trace |-> <<>>, result |-> <<>>]
    ELSE LET lg == lazy_login(ad, self, ck, fail)
         IN [ad |-> lg.ad, cookies |-> lg.cookies, trace |-> lg.trace,
             result |-> IF lg.ad.page /\ ok
                          THEN Collect(ad.cls, Take(shown, MentionsCap), "mentions")
                          ELSE <<>>]

\* PlatformAdapter.logout -> close_browser: with a browser held, save the
\* cookies, close, drop the handles; nothing is caught
logout(ad, self, ck, fail) ==
  IF ad.browser
    THEN LET sv == save_cookies(ad, self, ck, fail)
         IN IF sv.raised
              THEN [ad |-> ad, cookies |-> ck, raised |-> TRUE, trace |-> <<>>]
              ELSE [ad |-> [ad EXCEPT !.browser = FALSE, !.context = FALSE,
                                      !.page = FALSE, !.is_logged_in = FALSE],
                    cookies |-> sv.cookies, raised |-> FALSE,
                    trace |-> sv.trace \o <<"browser.close">>]
    ELSE [ad |-> [ad EXCEPT !.is_logged_in = FALSE], cookies |-> ck,
          raised |-> FALSE, trace |-> <<>>]

\* the pages the browser may show: up to MaxShown elements
Pages == UNION {[1..n -> {e.id : e \in Elements}] : n \in 0..MaxShown}
Limits == 0..MaxLimit

\* the notifications pages: no notification is shown twice on one page
Feeds == {s \in Pages : \A i, j \in 1..Len(s) : s[i] = s[j] => i = j}

\* ---- the calls, as a client of the adapter makes them
Objects == 1..Len(heap)

AdapterAfter(self, r) ==
  /\ heap' = [heap EXCEPT ![self] = r.ad]
  /\ cookies' = r.cookies
  /\ UNCHANGED <<registry_adapters, registered_names>>

Returned(self, r) ==
  /\ AdapterAfter(self, r)
  /\ UNCHANGED <<responder_vars, sched_vars>>

call_login(self) ==
  \E fail \in Fails :
    LET r == login(heap[self], self, cookies, fail)
    IN /\ Returned(self, r)
       /\ last' = [op |-> "login", self |-> self, before |-> heap[self],
                   raised |-> FALSE, result |-> r.result, trace |-> r.trace]

call_act(self, kind) ==
  \E fail \in Fails, ok \in BOOLEAN :
    LET r == act(heap[self], self, cookies, kind, fail, ok)
    IN /\ Returned(self, r)
       /\ last' = [op |-> kind, self |-> self, before |-> heap[self],
                   raised |-> FALSE, result |-> r.result, trace |-> r.trace]

call_search(self, limit, shown) ==
  \E fail \in Fails, ok \in BOOLEAN :
    LET r == search(heap[self], self, cookies, limit, shown, fail, ok)
    IN /\ Returned(self, r)
       /\ last' = [op |-> "search", self |-> self, before |-> heap[self],
                   args |-> <<limit, shown>>,
                   raised |-> FALSE, result |-> r.result, trace |-> r.trace]

call_logout(self) ==
  \E fail \in {"save", "none"} :
    LET r == logout(heap[self], self, cookies, fail)
    IN /\ Returned(self, r)
       /\ last' = [op |-> "logout", self |-> self, before |-> heap[self],
                   raised |-> r.raised, result |-> ~r.raised, trace |-> r.trace]

\* AdapterSpec: the package import, then one adapter and any sequence of
\* calls on it (an adapter's methods touch that adapter and the cookie file
\* of its class only)
AdapterNext ==
  \/ ImportPackage
  \/ \E n \in CasedNames, c \in Credentials :
       heap = <<>> /\ Registry_get_adapter(n, c[1], c[2])
  \/ \E self \in Objects : call_login(self)
  \/ \E self \in Objects, kind \in WriteKinds : call_act(self, kind)
  \/ \E self \in Objects, limit \in Limits, shown \in Pages : call_search(self, limit, shown)
  \/ \E self \in Objects : call_logout(self)

AdapterSpec == Init /\ [][AdapterNext]_vars

\* ---- save_cookies, statement by statement
\* `if self.context and self.cookies_path:` then `await self.context.cookies()`:
\* the call waits for the browser; other calls may run meanwhile
save_cookies_begin(self) ==
  /\ poll.pc \in {"idle", "save_cookies"}
  /\ IF poll.pc = "idle" THEN TRUE ELSE self \notin poll.waiting /\ self # poll.writing
  /\ heap[self].context
  /\ poll' = IF poll.pc = "idle"
               THEN [pc |-> "save_cookies", waiting |-> {self}, writing |-> 0]
               ELSE [poll EXCEPT !.waiting = @ \cup {self}]
  /\ UNCHANGED <<registry_adapters, registered_names, heap, cookies, last,
                 last_check, handled, ar_is_running, engagement_queue, sched_vars>>

\* `with open(self.cookies_path, 'w') as f:` the file of the adapter's class
\* is created or cut to length 0. Nothing is awaited from here to the end of
\* the call, so no other call runs in between.
save_cookies_open(self) ==
  /\ poll.pc = "save_cookies"
  /\ poll.writing = 0
  /\ self \in poll.waiting
  /\ cookies' = [cookies EXCEPT ![heap[self].cls] = -self]
  /\ poll' = [poll EXCEPT !.waiting = @ \ {self}, !.writing = self]
  /\ UNCHANGED <<registry_adapters, registered_names, heap, last,
                 last_check, handled, ar_is_running, engagement_queue, sched_vars>>

\* `json.dump(cookies, f)` and the close of the file: the blob is complete
save_cookies_dump ==
  /\ poll.pc = "save_cookies"
  /\ poll.writing # 0
  /\ cookies' = [cookies EXCEPT ![heap[poll.writing].cls] = poll.writing]
  /\ poll' = IF poll.waiting = {} THEN NoPoll ELSE [poll EXCEPT !.writing = 0]
  /\ UNCHANGED <<registry_adapters, registered_names, heap, last,
                 last_check, handled, ar_is_running, engagement_queue, sched_vars>>

\* the process dies while save_cookies calls are in flight: the objects are
\* gone, the files stay as they are
Crash ==
  /\ poll.pc = "save_cookies"
  /\ poll' = [pc |-> "crashed"]
  /\ heap' = <<>>
  /\ UNCHANGED <<registry_adapters, registered_names, cookies, last,
                 last_check, handled, ar_is_running, engagement_queue, sched_vars>>

\* CookieSpec: the package import, up to MaxAdapters adapters, their logins,
\* and save_cookies calls, which a crash may end
CookieNext ==
  \/ ImportPackage
  \/ \E n \in CasedNames, c \in Credentials :
       /\ Len(heap) < MaxAdapters /\ poll.pc = "idle"
       /\ Registry_get_adapter(n, c[1], c[2])
  \/ \E self \in Objects : poll.pc = "idle" /\ call_login(self)
  \/ \E self \in Objects : save_cookies_begin(self)
  \/ \E self \in Objects : save_cookies_open(self)
  \/ save_cookies_dump
  \/ Crash

CookieSpec == Init /\ [][CookieNext]_vars

\* ------------------------------------------------------- AutoResponder
\* str.split(",")
split(s) ==
  CASE s = "" -> <<"">>
    [] s = "," -> <<"", "">>
    [] s = "hello, Price" -> <<"hello", " Price">>
    [] OTHER -> <<s>>

\* Python's `part in text`, for the lower-cased texts and keywords at hand
Contains(text, part) ==
  \/ part = ""
  \/ part = text
  \/ text = "price?" /\ part = "price"
  \/ text = " hello " /\ part = "hello"

\* AutoResponder._keyword_match: some non-empty comma-separated keyword,
\* stripped and lower-cased, occurs in the lower-cased text
_keyword_match(text, keywords) ==
  /\ keywords # ""
  /\ \E i \in 1..Len(split(keywords)) :
       LET keyword == lower(strip(split(keywords)[i]))
       IN keyword # "" /\ Contains(lower(text), keyword)

\* the FAQ rows a product may have, and the lists get_faqs may return
\* (newest first)
FaqPrice == [question |-> "Price?", keywords |-> "", answer |-> "It costs $5."]
FaqGreet == [question |-> "Greeting", keywords |-> "hello, Price", answer |-> "Hi there!"]
FaqShip  == [question |-> "Shipping", keywords |-> ",", answer |-> "Two days."]
FaqLists == {<<>>, <<FaqShip, FaqPrice>>, <<FaqPrice, FaqGreet>>, <<FaqGreet, FaqPrice>>}

\* the products table
Products == {1}

\* what the generation service returns when it answers
Generated == "Thanks for reaching out!"

\* _process_mention's FAQ loop: the index of the first FAQ whose question or
\* keywords match the text, 0 for none
matched_faq(faqs, text) ==
  LET hits == {i \in 1..Len(faqs) :
                 \/ _keyword_match(text, faqs[i].question)
                 \/ _keyword_match(text, faqs[i].keywords)}
  IN IF hits = {} THEN 0 ELSE CHOOSE i \in hits : \A j \in hits : i <= j

\* a _process_mention that asks the generation service for every mention
process_mention_always_generates(pf, faqs, mention, gen_ok) ==
  [of |-> mention.of, text |-> mention.text, sent |-> <<>>,
   faq |-> matched_faq(faqs, mention.text), generated |-> 1, returned |-> IF gen_ok THEN <<Generated>> ELSE <<>>,
   logged |-> IF gen_ok
                THEN {<<"Auto-responded", pf, mention.text, Generated, "AI-generated">>}
                ELSE {}]

\* a _process_mention that sends its response to the platform as a reply
process_mention_replies(pf, faqs, mention, gen_ok) ==
  LET m == matched_faq(faqs, mention.text)
      response == IF m # 0 THEN <<faqs[m].answer>>
                  ELSE IF gen_ok THEN <<Generated>> ELSE <<>>
  IN [of |-> mention.of, text |-> mention.text, faq |-> m,
      generated |-> IF m # 0 THEN 0 ELSE 1, returned |-> response,
      sent |-> IF response = <<>> THEN <<>> ELSE <<"comment">>,
      logged |-> {<<"Auto-responded", pf, mention.text, response[i], "reply">> :
                    i \in 1..Len(response)}]

\* AutoResponder._process_mention: the answer of the first matching FAQ, else
\* one call of the generation service; the response is logged and returned;
\* any exception gives None. `generated` counts the calls of the generation
\* service, `returned` is the response (empty for None), `logged` the
\* activity-log entries written, `sent` the calls made on the adapter: none
_process_mention(pf, faqs, mention, gen_ok) ==
  LET m == matched_faq(faqs, mention.text)
      head == [of |-> mention.of, text |-> mention.text, faq |-> m, sent |-> <<>>]
  IN IF m # 0
       THEN head @@ [generated |-> 0, returned |-> <<faqs[m].answer>>,
                     logged |-> {<<"Auto-responded", pf, mention.text,
                                   faqs[m].answer, faqs[m].question>>}]
       ELSE IF gen_ok
         THEN head @@ [generated |-> 1, returned |-> <<Generated>>,
                       logged |-> {<<"Auto-responded", pf, mention.text,
                                     Generated, "AI-generated">>}]
         ELSE head @@ [generated |-> 1, returned |-> <<>>, logged |-> {}]

\* datetime.isoformat
isoformat(t) == <<"iso", t>>

\* the record of a check_and_respond call that has returned: p is the call,
\* `completed` says the try block reached its end, `escaped` that an
\* exception left the call
Polled(p, mentions, outcomes, completed, escaped) ==
  [op |-> "check_and_respond", platform |-> p.platform, product_id |-> p.product_id,
   faqs |-> p.faqs, self |-> p.self, trace |-> p.trace,
   mentions |-> mentions, outcomes |-> outcomes,
   completed |-> completed, raised |-> escaped]

\* an end of the try block that moves the cursor of every platform
poll_end_every_cursor(p, mentions, outcomes) ==
  /\ last_check' = [pf \in PollPlatforms |-> isoformat(now)]
  /\ handled' = handled \cup {<<lower(p.platform), mentions[i].of>> : i \in 1..Len(mentions)}
  /\ last' = Polled(p, mentions, outcomes, TRUE, FALSE)
  /\ poll' = NoPoll

\* the end of check_and_respond's try block: the cursor of the platform is
\* set to the current time and the call returns
poll_end(p, mentions, outcomes) ==
  /\ last_check' = [last_check EXCEPT ![p.platform] = isoformat(now)]
  /\ handled' = handled \cup {<<lower(p.platform), mentions[i].of>> : i \in 1..Len(mentions)}
  /\ last' = Polled(p, mentions, outcomes, TRUE, FALSE)
  /\ poll' = NoPoll

\* a check_and_respond whose loop is ended by the first generation failure
poll_process_unguarded ==
  /\ poll.pc = "process"
  /\ \E gen_ok \in BOOLEAN :
       LET o == _process_mention(poll.platform, poll.faqs,
                                 poll.mentions[Len(poll.outcomes) + 1], gen_ok)
           outcomes == poll.outcomes \o <<o>>
       IN /\ activity' = activity \cup o.logged
          /\ IF o.returned = <<>>
               THEN /\ last' = Polled(poll, poll.mentions, poll.outcomes, FALSE, FALSE)
                    /\ poll' = NoPoll
                    /\ UNCHANGED <<last_check, handled>>
               ELSE IF Len(outcomes) = Len(poll.mentions)
                 THEN poll_end(poll, poll.mentions, outcomes)
                 ELSE /\ poll' = [poll EXCEPT !.outcomes = outcomes]
                      /\ UNCHANGED <<last_check, handled, last>>
  /\ UNCHANGED <<registry_adapters, registered_names, heap, cookies,
                 ar_is_running, engagement_queue>>
  /\ UNCHANGED <<posts_vars, now, running, is_running, jobs, runs, postedBy, lastOp, raised>>

\* AutoResponder.start / AutoResponder.stop: set and clear the flag
responder_start ==
  /\ ar_is_running' = TRUE
  /\ UNCHANGED <<registry_adapters, registered_names, heap, cookies, last,
                 last_check, poll, handled, engagement_queue, sched_vars>>

responder_stop ==
  /\ ar_is_running' = FALSE
  /\ UNCHANGED <<registry_adapters, registered_names, heap, cookies, last,
                 last_check, poll, handled, engagement_queue, sched_vars>>

\* what the data store does during a call: it answers, or the load of the
\* products or of the FAQs raises
StoreOutcomes == {"ok", "get_products", "get_faqs"}

\* check_and_respond up to its first await on the adapter: the return for
\* missing credentials, the loads of product and FAQs (outside the try: their
\* exceptions leave the call), the return for a missing product, then
\* get_adapter inside the try. The running flag is not read. The FAQ list
\* and the failure of the data store, if any, are inputs.
check_and_respond(pf, product_id, username, password) ==
  LET p == [pc |-> "login", platform |-> pf, product_id |-> product_id,
            faqs |-> <<>>, self |-> 0, mentions |-> <<>>, outcomes |-> <<>>,
            trace |-> <<>>]
      return(escaped) == last' = Polled(p, <<>>, <<>>, FALSE, escaped) /\ UNCHANGED <<heap, poll>>
  IN
  /\ Imported
  /\ poll.pc = "idle"
  /\ IF username = "" \/ password = ""
       THEN return(FALSE)
       ELSE \E store \in StoreOutcomes :
         IF store = "get_products" THEN return(TRUE)
         ELSE IF product_id \notin Products THEN return(FALSE)
         ELSE IF store = "get_faqs" THEN return(TRUE)
         ELSE IF registry_adapters[lower(pf)] = NoClass THEN return(FALSE)
         ELSE \E faqs \in FaqLists :
                /\ Len(heap) < MaxAdapters
                /\ heap' = Append(heap, NewAdapter(registry_adapters[lower(pf)],
                                                   username, password))
                /\ poll' = [p EXCEPT !.faqs = faqs, !.self = Len(heap) + 1]
                /\ last' = NoCall
  /\ UNCHANGED <<registry_adapters, registered_names, cookies,
                 last_check, handled, ar_is_running, engagement_queue, sched_vars>>

\* `await adapter.login()`: the result is not looked at
poll_login ==
  /\ poll.pc = "login"
  /\ \E fail \in Fails :
       LET r == login(heap[poll.self], poll.self, cookies, fail)
       IN /\ AdapterAfter(poll.self, r)
          /\ poll' = [poll EXCEPT !.pc = "get_mentions", !.trace = @ \o r.trace]
  /\ UNCHANGED <<last, last_check, handled, ar_is_running, engagement_queue, sched_vars>>

\* `mentions = await adapter.get_mentions(since_id)`; with no mention the loop
\* is empty and the call ends
poll_get_mentions ==
  /\ poll.pc = "get_mentions"
  /\ \E fail \in Fails, ok \in BOOLEAN, shown \in Feeds :
       LET r == get_mentions(heap[poll.self], poll.self, cookies,
                             last_check[poll.platform], shown, fail, ok)
           p == [poll EXCEPT !.trace = @ \o <<"get_mentions">> \o r.trace]
       IN /\ AdapterAfter(poll.self, r)
          /\ IF r.result = <<>>
               THEN poll_end(p, <<>>, <<>>)
               ELSE /\ poll' = [p EXCEPT !.pc = "process", !.mentions = r.result]
                    /\ UNCHANGED <<last, last_check, handled>>
  /\ UNCHANGED <<ar_is_running, engagement_queue, sched_vars>>

\* one turn of `for mention in mentions: await self._process_mention(...)`;
\* after the last one the call ends
poll_process ==
  /\ poll.pc = "process"
  /\ \E gen_ok \in BOOLEAN :
       LET o == _process_mention(poll.platform, poll.faqs,
                                 poll.mentions[Len(poll.outcomes) + 1], gen_ok)
           outcomes == poll.outcomes \o <<o>>
           p == [poll EXCEPT !.trace = @ \o o.sent]
       IN /\ activity' = activity \cup o.logged
          /\ IF Len(outcomes) = Len(poll.mentions)
               THEN poll_end(p, poll.mentions, outcomes)
               ELSE /\ poll' = [p EXCEPT !.outcomes = outcomes]
                    /\ UNCHANGED <<last_check, handled, last>>
  /\ UNCHANGED <<registry_adapters, registered_names, heap, cookies,
                 ar_is_running, engagement_queue>>
  /\ UNCHANGED <<posts_vars, now, running, is_running, jobs, runs, postedBy, lastOp, raised>>

\* the clock, for the cursor
Tick == AdvanceTime /\ UNCHANGED <<postedBy, lastOp, agent_vars>>

\* ResponderSpec: the package import, start and stop, and check_and_respond
\* calls, one at a time, on any platform, product, credentials and FAQ list
ResponderNext ==
  \/ ImportPackage
  \/ Tick
  \/ responder_start
  \/ responder_stop
  \/ \E pf \in PollPlatforms, product_id \in {1, 2}, c \in Credentials :
       check_and_respond(pf, product_id, c[1], c[2])
  \/ poll_login
  \/ poll_get_mentions
  \/ poll_process

ResponderSpec == Init /\ [][ResponderNext]_vars

\* ------------------------------------------------------- strings
\* In the functions below a Python str is the sequence of its characters, so
\* that lower, strip, split, `in` and count are computed, not looked up.
\* Chars spells out the words the texts are made of.
Chars(word) ==
  CASE word = "link" -> <<"l", "i", "n", "k">>
    [] word = "Link" -> <<"L", "i", "n", "k">>
    [] word = "links" -> <<"l", "i", "n", "k", "s">>
    [] word = "in" -> <<"i", "n">>
    [] word = "bio" -> <<"b", "i", "o">>
    [] word = "BIO" -> <<"B", "I", "O">>
    [] word = "tree" -> <<"t", "r", "e", "e">>
    [] word = "linktree" -> <<"l", "i", "n", "k", "t", "r", "e", "e">>
    [] word = "biolink" -> <<"b", "i", "o", "l", "i", "n", "k">>
    [] word = "page" -> <<"p", "a", "g", "e">>
    [] word = "alternative" -> <<"a", "l", "t", "e", "r", "n", "a", "t", "i", "v", "e">>
    [] word = "tool" -> <<"t", "o", "o", "l">>
    [] word = "tools" -> <<"t", "o", "o", "l", "s">>
    [] word = "creator" -> <<"c", "r", "e", "a", "t", "o", "r">>
    [] word = "social" -> <<"s", "o", "c", "i", "a", "l">>
    [] word = "media" -> <<"m", "e", "d", "i", "a">>
    [] word = "personal" -> <<"p", "e", "r", "s", "o", "n", "a", "l">>
    [] word = "brand" -> <<"b", "r", "a", "n", "d">>
    [] word = "influencer" -> <<"i", "n", "f", "l", "u", "e", "n", "c", "e", "r">>
    [] word = "content" -> <<"c", "o", "n", "t", "e", "n", "t">>
    [] word = "hi" -> <<"h", "i">>
    [] word = "hello" -> <<"h", "e", "l", "l", "o">>
    [] word = "" -> <<>>
    [] word = "," -> <<",">>
    [] word = "PRICE?" -> <<"P", "R", "I", "C", "E", "?">>
    [] word = "Price?" -> <<"P", "r", "i", "c", "e", "?">>
    [] word = " hello " -> <<" ", "h", "e", "l", "l", "o", " ">>
    [] word = "hello, Price" ->
         <<"h", "e", "l", "l", "o", ",", " ", "P", "r", "i", "c", "e">>
    [] word = "Greeting" -> <<"G", "r", "e", "e", "t", "i", "n", "g">>
    [] word = "Shipping" -> <<"S", "h", "i", "p", "p", "i", "n", "g">>

RECURSIVE Text(_)
\* the text made of the given words, one space between two
Text(words) ==
  IF words = <<>> THEN <<>>
  ELSE IF Len(words) = 1 THEN Chars(words[1])
  ELSE Chars(words[1]) \o <<" ">> \o Text(Tail(words))

\* str.lower
Lower(s) ==
  [i \in 1..Len(s) |->
     CASE s[i] = "A" -> "a" [] s[i] = "B" -> "b" [] s[i] = "I" -> "i"
       [] s[i] = "L" -> "l" [] s[i] = "O" -> "o" [] s[i] = "C" -> "c"
       [] s[i] = "E" -> "e" [] s[i] = "G" -> "g" [] s[i] = "P" -> "p"
       [] s[i] = "R" -> "r" [] s[i] = "S" -> "s" [] OTHER -> s[i]]

\* str.strip
Strip(s) ==
  LET inked == {i \in 1..Len(s) : s[i] # " "}
  IN IF inked = {} THEN <<>>
     ELSE SubSeq(s, CHOOSE i \in inked : \A j \in inked : i <= j,
                    CHOOSE i \in inked : \A j \in inked : j <= i)

RECURSIVE Split(_, _)
\* str.split(sep) for a one-character separator: the pieces between the
\* separators, empty pieces included; at least one piece
Split(s, sep) ==
  LET at == {i \in 1..Len(s) : s[i] = sep}
  IN IF at = {} THEN <<s>>
     ELSE LET i == CHOOSE k \in at : \A j \in at : k <= j
          IN <<SubSeq(s, 1, i - 1)>> \o Split(SubSeq(s, i + 1, Len(s)), sep)

\* str.split(): the pieces between runs of whitespace, none of them empty
Words(s) == SelectSeq(Split(s, " "), LAMBDA w : w # <<>>)

\* `sub in s`
IsIn(sub, s) == \E i \in 0..(Len(s) - Len(sub)) : SubSeq(s, i + 1, i + Len(sub)) = sub

RECURSIVE CountOf(_, _)
\* s.count(sub): the occurrences met scanning from the left, each search
\* resuming after the previous occurrence; len(s) + 1 for the empty string
CountOf(s, sub) ==
  IF sub = <<>> THEN Len(s) + 1
  ELSE LET at == {i \in 0..(Len(s) - Len(sub)) : SubSeq(s, i + 1, i + Len(sub)) = sub}
       IN IF at = {} THEN 0
          ELSE LET i == CHOOSE k \in at : \A j \in at : k <= j
               IN 1 + CountOf(SubSeq(s, i + Len(sub) + 1, Len(s)), sub)

\* ------------------------------------------------------- FAQMatcher
\* A score is a fraction <<numerator, denominator>>; 0.0 is <<0, 1>>.
Less(x, y) == x[1] * y[2] < y[1] * x[2]

\* FAQMatcher._calculate_keyword_score: the share of the comma-separated
\* entries, stripped and lower-cased, that occur in the lower-cased query; an
\* empty entry occurs in every query
_calculate_keyword_score(query, faq_keywords) ==
  IF faq_keywords = <<>> THEN <<0, 1>>
  ELSE LET pieces == Split(faq_keywords, ",")
           keywords == [i \in 1..Len(pieces) |-> Lower(Strip(pieces[i]))]
           matches == Cardinality({i \in 1..Len(keywords) : IsIn(keywords[i], Lower(query))})
       IN <<matches, Len(keywords)>>

\* a similarity that divides by the number of query words
text_similarity_by_query(query, question) ==
  LET query_words == {Words(Lower(query))[i] : i \in 1..Len(Words(Lower(query)))}
      question_words == {Words(Lower(question))[i] : i \in 1..Len(Words(Lower(question)))}
  IN IF query_words = {} \/ question_words = {} THEN <<0, 1>>
     ELSE <<Cardinality(query_words \cap question_words), Cardinality(query_words)>>

\* FAQMatcher._calculate_text_similarity: shared words over the larger of the
\* two word sets
_calculate_text_similarity(query, question) ==
  LET query_words == {Words(Lower(query))[i] : i \in 1..Len(Words(Lower(query)))}
      question_words == {Words(Lower(question))[i] : i \in 1..Len(Words(Lower(question)))}
      larger == IF Cardinality(query_words) >= Cardinality(question_words)
                  THEN Cardinality(query_words) ELSE Cardinality(question_words)
  IN IF query_words = {} \/ question_words = {} THEN <<0, 1>>
     ELSE <<Cardinality(query_words \cap question_words), larger>>

\* (keyword_score * 0.6) + (similarity_score * 0.4), as an exact fraction
combined_score(query, faq) ==
  LET k == _calculate_keyword_score(query, faq.keywords)
      t == _calculate_text_similarity(query, faq.question)
  IN <<6 * k[1] * t[2] + 4 * t[1] * k[2], 10 * k[2] * t[2]>>

\* self.min_score_threshold = 0.3
min_score_threshold == <<3, 10>>

\* a matcher whose loop lets a later FAQ with an equal score win
find_matching_faq_last_wins(faqs, query) ==
  LET RECURSIVE loop(_, _, _)
      loop(i, best_match, best_score) ==
        IF i > Len(faqs) THEN <<best_match, best_score>>
        ELSE IF ~Less(combined_score(query, faqs[i]), best_score)
               THEN loop(i + 1, i, combined_score(query, faqs[i]))
               ELSE loop(i + 1, best_match, best_score)
      best == loop(1, 0, <<0, 1>>)
  IN IF ~Less(best[2], min_score_threshold) /\ best[1] # 0 THEN best ELSE <<>>

\* FAQMatcher.find_matching_faq over the list get_faqs returned: the loop
\* keeps the first FAQ with the strictly greatest score; the result is
\* <<index of best_match, best_score>>, or <<>> for None
find_matching_faq(faqs, query) ==
  LET RECURSIVE loop(_, _, _)
      loop(i, best_match, best_score) ==
        IF i > Len(faqs) THEN <<best_match, best_score>>
        ELSE IF Less(best_score, combined_score(query, faqs[i]))
               THEN loop(i + 1, i, combined_score(query, faqs[i]))
               ELSE loop(i + 1, best_match, best_score)
      best == loop(1, 0, <<0, 1>>)
  IN IF ~Less(best[2], min_score_threshold) THEN best ELSE <<>>

\* ------------------------------------------------------- LeadDiscovery
\* self.product_keywords
product_keywords ==
  << Text(<<"link", "in", "bio">>), Text(<<"linktree">>), Text(<<"link", "tree">>),
     Text(<<"bio", "link">>), Text(<<"link", "page">>), Text(<<"link", "bio">>),
     Text(<<"biolink">>), Text(<<"linktree", "alternative">>),
     Text(<<"link", "in", "bio", "tool">>), Text(<<"creator", "tools">>),
     Text(<<"social", "media", "links">>), Text(<<"personal", "brand">>),
     Text(<<"influencer">>), Text(<<"content", "creator">>) >>

\* a relevance score that is not clamped
relevance_score_unclamped(text, query) ==
  IF text = <<>> THEN 0
  ELSE 2 * Cardinality({k \in 1..Len(product_keywords) : IsIn(product_keywords[k], Lower(text))})
       + (IF IsIn(Lower(query), Lower(text)) THEN 3 ELSE 0)
       + (IF CountOf(Lower(text), Lower(query)) > 1 THEN 1 ELSE 0)

\* LeadDiscovery._calculate_relevance_score, in tenths: 0.2 for each product
\* keyword in the lower-cased text, 0.3 when the lower-cased query is in it,
\* 0.1 when text.count(query) > 1, at most 1.0; 0.0 for an empty text
_calculate_relevance_score(text, query) ==
  IF text = <<>> THEN 0
  ELSE LET text_lower == Lower(text)
           query_lower == Lower(query)
           keywords == 2 * Cardinality({k \in 1..Len(product_keywords) :
                                          IsIn(product_keywords[k], text_lower)})
           relevance == IF IsIn(query_lower, text_lower) THEN 3 ELSE 0
           boost == IF CountOf(text_lower, query_lower) > 1 THEN 1 ELSE 0
           score == keywords + relevance + boost
       IN IF score < 10 THEN score ELSE 10

\* a dedup that keeps, of the leads of one username, the best-scored one
unique_leads_keep_best(all_leads) ==
  LET best(u) == CHOOSE i \in 1..Len(all_leads) :
                   /\ all_leads[i].username = u
                   /\ \A j \in 1..Len(all_leads) :
                        all_leads[j].username = u =>
                          \/ all_leads[j].relevance_score < all_leads[i].relevance_score
                          \/ (all_leads[j].relevance_score = all_leads[i].relevance_score
                              /\ i <= j)
      keep == {i \in 1..Len(all_leads) :
                 all_leads[i].username # "" /\ best(all_leads[i].username) = i}
      RECURSIVE loop(_, _)
      loop(i, unique) ==
        IF i > Len(all_leads) THEN unique
        ELSE loop(i + 1, IF i \in keep THEN Append(unique, all_leads[i]) ELSE unique)
  IN loop(1, <<>>)

\* a dedup that keeps the leads without a username as well
unique_leads_keep_nameless(all_leads) ==
  LET RECURSIVE loop(_, _, _)
      loop(i, seen, unique) ==
        IF i > Len(all_leads) THEN unique
        ELSE IF all_leads[i].username \notin seen
               THEN loop(i + 1, seen \cup {all_leads[i].username},
                         Append(unique, all_leads[i]))
               ELSE loop(i + 1, seen, unique)
  IN loop(1, {}, <<>>)

\* search_leads, the dedup loop: a lead is kept when its username is not
\* empty and not in `seen`
unique_leads(all_leads) ==
  LET RECURSIVE loop(_, _, _)
      loop(i, seen, unique) ==
        IF i > Len(all_leads) THEN unique
        ELSE IF all_leads[i].username \notin seen /\ all_leads[i].username # ""
               THEN loop(i + 1, seen \cup {all_leads[i].username},
                         Append(unique, all_leads[i]))
               ELSE loop(i + 1, seen, unique)
  IN loop(1, {}, <<>>)

\* a sort by increasing score
sort_ascending(leads) ==
  LET rank(i) == 1 + Cardinality({j \in 1..Len(leads) :
                   \/ leads[j].relevance_score < leads[i].relevance_score
                   \/ (leads[j].relevance_score = leads[i].relevance_score /\ j < i)})
  IN [k \in 1..Len(leads) |-> leads[CHOOSE i \in 1..Len(leads) : rank(i) = k]]

\* list.sort(key=relevance_score, reverse=True): by decreasing score, leads
\* of equal score in their previous order
sort_by_score(leads) ==
  LET rank(i) == 1 + Cardinality({j \in 1..Len(leads) :
                   \/ leads[j].relevance_score > leads[i].relevance_score
                   \/ (leads[j].relevance_score = leads[i].relevance_score /\ j < i)})
  IN [k \in 1..Len(leads) |-> leads[CHOOSE i \in 1..Len(leads) : rank(i) = k]]

\* search_leads from `# Remove duplicates and sort by score` to its return
top_leads(all_leads) == Take(sort_by_score(unique_leads(all_leads)), TopLeads)

\* ---- the calls of the pure functions, each on inputs from a bounded set
\* the result texts: up to MaxWords words
ResultTexts ==
  {Text(ws) : ws \in UNION {[1..n -> {"linktree", "alternative", "biolink", "influencer",
                                       "Link", "in", "BIO", "hi"}] : n \in 0..MaxWords}}
Queries == {<<>>, Text(<<"influencer">>), Text(<<"Link", "in", "bio">>), Text(<<"tree">>)}

\* the raw results of the searches of one run: every short list over a few
\* leads, and long lists of n leads over k usernames (the k-th has none) with
\* scores in steps of p
Lead(username, score) ==
  [platform |-> "twitter", username |-> username, text |-> "", relevance_score |-> score]
RawLeads ==
  UNION {[1..n -> {Lead("a", 0), Lead("a", 5), Lead("b", 5), Lead("", 9), Lead("b", 2)}] :
           n \in 0..MaxRaw}
  \cup {[i \in 1..n |-> Lead(IF i % k = 0 THEN "" ELSE ToString(i % k), (i * p) % 11)] :
          n \in (TopLeads - 1)..(TopLeads + MaxRaw), k \in {2, 7, TopLeads + MaxRaw + 1},
          p \in {0, 1, 3}}

\* the strings of up to MaxLen characters
Strings == UNION {[1..n -> {"a", "b", "A", " ", ","}] : n \in 0..MaxLen}

\* the FAQ rows of the matcher's inputs, and the lists get_faqs may return
MatcherFaqs ==
  { [question |-> <<"a", " ", "b">>, keywords |-> <<"a", ",", "b">>, answer |-> "one"],
    [question |-> <<"b", " ", "a">>, keywords |-> <<"b", ",", " ", "A">>, answer |-> "two"],
    [question |-> <<"A">>, keywords |-> <<>>, answer |-> "three"],
    [question |-> <<"b">>, keywords |-> <<"a", ",">>, answer |-> "four"] }
MatcherFaqLists == UNION {[1..n -> MatcherFaqs] : n \in 0..MaxFaqs}

\* a call of a function: nothing but the record of the call changes
Called(call) ==
  /\ last' = call
  /\ UNCHANGED <<registry_adapters, registered_names, heap, cookies,
                 responder_vars, sched_vars>>

FunctionNext ==
  \/ /\ last = NoCall
     /\ \E query \in Strings, faq_keywords \in Strings :
          Called([op |-> "_calculate_keyword_score", query |-> query,
                  faq_keywords |-> faq_keywords,
                  result |-> _calculate_keyword_score(query, faq_keywords)])
  \/ /\ last = NoCall
     /\ \E query \in Strings, question \in Strings :
          Called([op |-> "_calculate_text_similarity", query |-> query,
                  question |-> question,
                  result |-> _calculate_text_similarity(query, question)])
  \/ /\ last = NoCall
     /\ \E text \in ResultTexts, query \in Queries :
          Called([op |-> "_calculate_relevance_score", text |-> text, query |-> query,
                  result |-> _calculate_relevance_score(text, query)])
  \/ /\ last = NoCall
     /\ \E all_leads \in RawLeads :
          Called([op |-> "search_leads", all_leads |-> all_leads,
                  result |-> top_leads(all_leads)])
  \/ /\ last = NoCall
     /\ \E query \in Strings, faqs \in MatcherFaqLists :
          Called([op |-> "find_matching_faq", query |-> query, faqs |-> faqs,
                  result |-> find_matching_faq(faqs, query)])

FunctionSpec == Init /\ [][FunctionNext]_vars

\* ---- a discovery run, search by search
MaxSearches    == 5   \* search_queries[:5]
KeywordQueries == 5   \* self.product_keywords[:5]
SearchLimit    == 10  \* search_leads_on_platform(..., limit=10)

\* dict.get(key, default)
Get(record, key, default) == IF key \in DOMAIN record THEN record[key] ELSE default

\* a search_queries that is not cut to MaxSearches
search_queries_uncut(query) ==
  (IF query # <<>> THEN <<query>> ELSE <<>>) \o Take(product_keywords, KeywordQueries)

\* search_leads, `# Build search queries`: the caller's query when it is not
\* empty, then the first product keywords, MaxSearches in all
search_queries(query) ==
  Take((IF query # <<>> THEN <<query>> ELSE <<>>) \o Take(product_keywords, KeywordQueries),
       MaxSearches)

\* a search_leads_on_platform that follows every account it finds
search_leads_on_platform_follows(pf, query, username, password, limit, ck, self, shown, fail, ok) ==
  LET cls == registry_adapters[lower(pf)]
  IN IF cls = NoClass
       THEN [leads |-> <<>>, cookies |-> ck, calls |-> {}, searches |-> <<>>,
             failed |-> TRUE]
       ELSE LET r == search(NewAdapter(cls, username, password), self, ck, limit, shown,
                            fail, ok)
            IN [leads |-> [i \in 1..Len(r.result) |->
                             [platform |-> pf,
                              username |-> Get(r.result[i], "username", ""),
                              text |-> r.result[i].text, relevance_score |-> 0]],
                cookies |-> r.cookies,
                calls |-> {"search"} \cup (IF r.result = <<>> THEN {} ELSE {"follow"}),
                searches |-> << <<query, limit>> >>, failed |-> ~(r.ad.page /\ ok)]

\* search_leads_on_platform, `# Parse and score results`: a lead per result
leads_of(pf, query, results) ==
  LET score == [text \in {results[i].text : i \in 1..Len(results)} |->
                  _calculate_relevance_score(Chars(text), query)]
  IN [i \in 1..Len(results) |->
        [platform |-> pf, username |-> Get(results[i], "username", ""),
         text |-> results[i].text, relevance_score |-> score[results[i].text]]]

\* what search_leads_on_platform returns and did, given what its login (lg)
\* and its search (r) returned
searched_on_platform(pf, query, limit, ok, lg, r) ==
  [leads |-> leads_of(pf, query, r.result), cookies |-> r.cookies,
   calls |-> {lg.trace[i] : i \in 1..Len(lg.trace)} \cup {"search"}
               \cup {r.trace[i] : i \in 1..Len(r.trace)},
   searches |-> << <<query, limit>> >>, failed |-> ~(r.ad.page /\ ok)]

\* search_leads_on_platform from `# Search` on
search_after_login(pf, query, limit, self, shown, fail, ok, lg) ==
  searched_on_platform(pf, query, limit, ok, lg,
                       search(lg.ad, self, lg.cookies, limit, shown, fail, ok))

\* LeadDiscovery.search_leads_on_platform: a new adapter from the registry, a
\* login when credentials are given, one search, a scored lead per result;
\* any exception gives []. The adapter is local to the call: `self` is the
\* identity it has while the call lasts. `calls` are the adapter methods that
\* ran, `searches` the searches issued, `failed` whether the search failed.
search_leads_on_platform(pf, query, username, password, limit, ck, self, shown, fail, ok) ==
  IF registry_adapters[lower(pf)] = NoClass
    THEN [leads |-> <<>>, cookies |-> ck, calls |-> {}, searches |-> <<>>,
          failed |-> TRUE]
    ELSE search_after_login(pf, query, limit, self, shown, fail, ok,
           IF username # "" /\ password # ""
             THEN login(NewAdapter(registry_adapters[lower(pf)], username, password),
                        self, ck, fail)
             ELSE [ad |-> NewAdapter(registry_adapters[lower(pf)], username, password),
                   cookies |-> ck, trace |-> <<>>])

RECURSIVE Extended(_)
\* all_leads.extend(leads), for the results of the searches so far
Extended(results) ==
  IF results = <<>> THEN <<>> ELSE Head(results) \o Extended(Tail(results))

\* the record of a search_leads call that has returned or raised
Searched(p, escaped) ==
  [op |-> "search_leads", platform |-> p.platform, query |-> p.query,
   suggested |-> p.suggested, attempts |-> p.attempts, searches |-> p.searches,
   failed |-> p.failed, results |-> p.results, calls |-> p.calls,
   all_leads |-> Extended(p.results),
   result |-> IF escaped THEN <<>> ELSE top_leads(Extended(p.results)),
   raised |-> escaped]

\* search_leads up to its first search: the suggestions of the generation
\* service are awaited (an exception of the service leaves the call; the
\* suggestions themselves are not used), then the queries are built
search_leads(pf, query) ==
  LET p == [pc |-> "search", platform |-> pf, query |-> query, suggested |-> TRUE,
            search_queries |-> search_queries(query), attempts |-> <<>>,
            searches |-> <<>>, failed |-> <<>>, results |-> <<>>, calls |-> {}]
  IN /\ Imported
     /\ poll.pc = "idle"
     /\ \E gen_ok \in BOOLEAN :
          IF gen_ok
            THEN poll' = p /\ UNCHANGED last
            ELSE last' = Searched([p EXCEPT !.suggested = FALSE], TRUE) /\ UNCHANGED poll
     /\ UNCHANGED <<registry_adapters, registered_names, heap, cookies,
                    last_check, handled, ar_is_running, engagement_queue, sched_vars>>

\* the results pages of a discovery run; the last shows more than SearchLimit
ResultPages ==
  {<<>>, <<2, 1>>, <<4, 2>>, [i \in 1..(SearchLimit + 1) |-> 1 + (i % 2)]}

\* where the browser work of a discovery call fails: nowhere, at the launch
\* (no page), in the login steps (a page, no session)
DiscoveryFails == {"none", "launch", "automation"}

\* the loop of search_leads after one more search_leads_on_platform call has
\* returned r; after the last one the leads are deduplicated, sorted and cut,
\* and the call returns
discover_returned(search_query, r) ==
  LET p == [poll EXCEPT !.attempts = Append(@, search_query),
                        !.searches = @ \o r.searches,
                        !.failed = Append(@, r.failed),
                        !.results = Append(@, r.leads),
                        !.calls = @ \cup r.calls]
  IN /\ cookies' = r.cookies
     /\ IF Len(poll.attempts) + 1 = Len(poll.search_queries)
          THEN last' = Searched(p, FALSE) /\ poll' = NoPoll
          ELSE poll' = p /\ UNCHANGED last

\* one turn of `for search_query in search_queries[:5]`
discover_search ==
  /\ poll.pc = "search"
  /\ \E shown \in ResultPages, fail \in DiscoveryFails, ok \in BOOLEAN :
       discover_returned(poll.search_queries[Len(poll.attempts) + 1],
         search_leads_on_platform(poll.platform, poll.search_queries[Len(poll.attempts) + 1],
                                  "", "", SearchLimit, cookies, Len(heap) + 1,
                                  shown, fail, ok))
  /\ UNCHANGED <<registry_adapters, registered_names, heap,
                 last_check, handled, ar_is_running, engagement_queue, sched_vars>>

\* search_leads_on_platform has returned r to another caller
platform_searched(pf, query, r) ==
  /\ cookies' = r.cookies
  /\ last' = [op |-> "search_leads_on_platform", platform |-> pf, query |-> query,
              calls |-> r.calls, searches |-> r.searches, failed |-> r.failed,
              result |-> r.leads, raised |-> FALSE]

\* a call of search_leads_on_platform by another caller, with its defaults
call_search_leads_on_platform(pf, query, username, password) ==
  /\ Imported
  /\ poll.pc = "idle"
  /\ \E shown \in ResultPages, fail \in DiscoveryFails, ok \in BOOLEAN :
       platform_searched(pf, query,
         search_leads_on_platform(pf, query, username, password, 2 * SearchLimit,
                                  cookies, Len(heap) + 1, shown, fail, ok))
  /\ UNCHANGED <<registry_adapters, registered_names, heap, poll,
                 last_check, handled, ar_is_running, engagement_queue, sched_vars>>

\* the actions engage_with_lead is asked for
EngageActions == {"follow", "like", "message", "comment"}

\* engage_with_lead after its login returned lg: adapter.follow for "follow"
engaged(pf, username, action, fail, ok, lg) ==
  LET r == IF action = "follow"
             THEN act(lg.ad, Len(heap) + 1, lg.cookies, "follow", fail, ok)
             ELSE [cookies |-> lg.cookies, result |-> FALSE, trace |-> <<>>]
  IN /\ cookies' = r.cookies
     /\ last' = [op |-> "engage_with_lead", platform |-> pf, action |-> action,
                 calls |-> {lg.trace[i] : i \in 1..Len(lg.trace)}
                             \cup {r.trace[i] : i \in 1..Len(r.trace)},
                 result |-> r.result, raised |-> FALSE]

\* LeadDiscovery.engage_with_lead: a new adapter, a login, and for "follow"
\* adapter.follow(username); every other action gives False, and so does any
\* exception
engage_with_lead(pf, username, action, username_creds, password_creds) ==
  /\ Imported
  /\ poll.pc = "idle"
  /\ IF registry_adapters[lower(pf)] = NoClass
       THEN /\ last' = [op |-> "engage_with_lead", platform |-> pf, action |-> action,
                        calls |-> {}, result |-> FALSE, raised |-> FALSE]
            /\ UNCHANGED cookies
       ELSE \E fail \in DiscoveryFails, ok \in BOOLEAN :
              engaged(pf, username, action, fail, ok,
                      login(NewAdapter(registry_adapters[lower(pf)], username_creds,
                                       password_creds),
                            Len(heap) + 1, cookies, fail))
  /\ UNCHANGED <<registry_adapters, registered_names, heap, poll,
                 last_check, handled, ar_is_running, engagement_queue, sched_vars>>

\* the platforms and queries discovery is called with
DiscoveryPlatforms == {"twitter", "facebook", "myspace"}
DiscoveryQueries == {<<>>, Chars("hello")}

\* no call of the discovery service has been made yet
Fresh == last.op \in {"none", "register"}

\* DiscoverySpec: the package import, then one call of the discovery service
DiscoveryNext ==
  \/ ImportPackage
  \/ \E pf \in DiscoveryPlatforms, query \in DiscoveryQueries :
       Fresh /\ search_leads(pf, query)
  \/ discover_search
  \/ \E pf \in DiscoveryPlatforms, query \in DiscoveryQueries, c \in Credentials :
       Fresh /\ call_search_leads_on_platform(pf, query, c[1], c[2])
  \/ \E pf \in DiscoveryPlatforms, action \in EngageActions, c \in Credentials :
       Fresh /\ engage_with_lead(pf, "alice", action, c[1], c[2])

DiscoverySpec == Init /\ [][DiscoveryNext]_vars

\* ================================================================ claims
Terminal == {"published", "failed"}

\* C1 (stated as in the specification; the code violates it): no post is
\* published twice -- for no post do both a one-shot run publish_post(P) and
\* the recurring sweep call adapter.post
C1_NoDoublePublish ==
  \A p \in Posts : postedBy[p] # {"oneshot", "sweep"}

\* C2: at most one execution of check_due_posts is in flight in any reachable
\* state, and an interval tick that finds one in flight is skipped: it starts
\* nothing and queues nothing
C2_SweepAtMostOneInFlight ==
  /\ [](Cardinality(Instances(SweepId)) <= 1)
  /\ [][lastOp' = <<"tick_skipped", 0, 0>> => SweepInFlight /\ runs' = runs /\ jobs' = jobs]_vars

C2_Witness ==
  /\ lastOp = <<"tick_skipped", 0, 0>>
  /\ \E r \in runs : r.job = SweepId /\ r.pc = "posting"

\* C3 (stated as in the specification; the code violates it): post status
\* moves only draft -> scheduled, scheduled -> published and scheduled ->
\* failed; nothing leaves published or failed
C3_MonotonicStatus ==
  [][\A p \in Posts :
       status'[p] # status[p] =>
         \/ status[p] = "absent"
         \/ status[p] = "draft" /\ status'[p] = "scheduled"
         \/ status[p] = "scheduled" /\ status'[p] \in Terminal]_vars

\* C4 (stated as in the specification; the code violates it): when
\* adapter.post(content) reports failure the post ends 'failed', never
\* 'published'
C4_FailureMarksFailed ==
  [][\A r \in runs : post_returned(r, FALSE) => status'[Current(r)] = "failed"]_vars

\* C5: a due post on an unregistered platform is marked 'failed' by the sweep,
\* nothing is raised out of check_due_posts, and the sweep goes on to every
\* other due post: it ends only after the last post of its list (or by stop())
C5_SweepIsolatesUnsupported ==
  /\ [](~raised)
  /\ [](\A r \in runs : r.job = SweepId =>
          \A k \in 1..(r.idx - 1) :
            ~get_adapter(platform[r.list[k]]) => status[r.list[k]] = "failed")
  /\ [][\A r \in runs :
          /\ (publish_begin(r) /\ ~get_adapter(platform[Current(r)]))
               => status'[Current(r)] = "failed"
          /\ (r.job = SweepId /\ Instances(SweepId)' = {})
               => (~running' \/ r.idx = Len(r.list))]_vars

C5_Witness ==
  \E r \in runs :
    /\ r.job = SweepId
    /\ r.idx = 2
    /\ r.pc = "posting"
    /\ ~get_adapter(platform[r.list[1]])
    /\ status[r.list[1]] = "failed"

\* C6: at most one one-shot job exists per post id, and after schedule_post(P, t)
\* the one job of P carries run date t, also when it replaced a job with
\* another run date
C6_OneJobPerPost ==
  /\ \A p \in Posts : Cardinality(JobsOf(jobs, JobId(p))) <= 1
  /\ \A p \in Posts, t \in Times :
       lastOp \in {<<"schedule_post", p, t>>, <<"reschedule_post", p, t>>}
         => JobsOf(jobs, JobId(p)) = {DateJob(p, t)}

C6_Witness ==
  \E p \in Posts, t \in Times :
    /\ lastOp = <<"reschedule_post", p, t>>
    /\ JobsOf(jobs, JobId(p)) = {DateJob(p, t)}

\* C7: cancel_scheduled_post(P) removes P's one-shot job, a job of P comes
\* into being only by a later schedule_post(P, _), and publish_post(P) starts
\* only from a job in the store: so a cancelled job never fires.  The cancel
\* touches no run in flight and no post, and a run leaves a post only
\* published or failed (unless stop() cancels it)
C7_CancelStopsJobNotPublish ==
  [][\A p \in Posts :
       /\ lastOp'[1] = "cancel_scheduled_post" /\ lastOp'[2] = p
            => JobId(p) \notin JobIds(jobs') /\ runs' = runs /\ status' = status
       /\ (JobId(p) \notin JobIds(jobs) /\ JobId(p) \in JobIds(jobs'))
            => lastOp' \in {<<"schedule_post", p, t>> : t \in Times}
       /\ (Instances(JobId(p)) = {} /\ Instances(JobId(p))' # {})
            => JobId(p) \in JobIds(jobs)
       /\ \A r \in runs :
            (/\ Current(r) = p
             /\ running'
             /\ ~\E r2 \in runs' : r2.job = r.job /\ r2.inst = r.inst /\ r2.idx = r.idx)
              => status'[p] \in Terminal]_vars

C7_Witness ==
  \E p \in Posts :
    /\ lastOp = <<"cancel_scheduled_post", p, 1>>
    /\ \E r \in runs : r.job = JobId(p) /\ r.pc = "posting"
    /\ status[p] = "scheduled"

\* C8: cancel_scheduled_post(P) with no one-shot job of P raises nothing and
\* changes nothing: the sweep job and the other posts' jobs stay as they are
C8_CancelMissingIsNoOp ==
  [][\A p \in Posts :
       lastOp' = <<"cancel_scheduled_post", p, 0>>
         => /\ ~raised'
            /\ UNCHANGED <<jobs, runs, posts_vars, now, running, is_running, activity>>]_vars

C8_Witness ==
  \E p, q \in Posts :
    /\ p # q
    /\ lastOp = <<"cancel_scheduled_post", p, 0>>
    /\ SweepJob \in jobs
    /\ JobId(q) \in JobIds(jobs)

\* a post the sweep's query selects now
DueNow(p) ==
  /\ status[p] = "scheduled"
  /\ scheduled_at[p] # None_
  /\ scheduled_at[p] <= now

\* the posts a sweep run carries
Listed(r) == {r.list[i] : i \in 1..Len(r.list)}

\* C9 (as the code has it): while the scheduler keeps running, every post with
\* status 'scheduled' whose fire-at is not in the future is taken by the first
\* sweep that starts while it is due, every post a sweep has gone past is
\* 'published' or 'failed', and the post eventually leaves 'scheduled' (or the
\* scheduler is stopped first); a tick that finds a sweep in flight is
\* skipped, so the attempt can come later than one sweep interval
C9_DuePostIsSwept ==
  /\ \A p \in Posts : (running /\ DueNow(p)) ~> (status[p] \in Terminal \/ ~running)
  /\ [](\A r \in Instances(SweepId) :
          \A i \in 1..(r.idx - 1) : status[r.list[i]] \in Terminal)
  /\ [][(Instances(SweepId) = {} /\ Instances(SweepId)' # {})
          => \A r \in Instances(SweepId)' : \A p \in Posts : DueNow(p) => p \in Listed(r)]_vars

\* a sweep that has published its first due post and is posting its second
C9_Witness ==
  \E r \in Instances(SweepId) :
    /\ Len(r.list) = 2
    /\ r.idx = 2
    /\ r.pc = "posting"
    /\ status[r.list[1]] = "published"
    /\ DueNow(r.list[2])

\* C9 (as the specification states it): a due post receives its publish
\* attempt by the next sweep tick, within one sweep interval -- no interval
\* tick passes without every due post being in the hands of a sweep
C9_AttemptedByNextTick ==
  [][lastOp' = <<"tick_skipped", 0, 0>>
       => \A p \in Posts : DueNow(p) => \E r \in Instances(SweepId)' : p \in Listed(r)]_vars

\* C10: is_running is true exactly when the underlying scheduler runs, a new
\* scheduler is not running, and while it runs exactly one sweep job
\* 'check_posts' is registered -- after repeated start() and after stop()
\* followed by start() too
C10_OneSweepJobWhileRunning ==
  /\ is_running = running
  /\ lastOp = <<"init", 0, 0>> => ~is_running
  /\ is_running => Cardinality(JobsOf(jobs, SweepId)) = 1

\* a restart: start() has just started a scheduler that had run before
C10_Witness ==
  /\ lastOp = <<"start", 0, 0>>
  /\ is_running
  /\ SweepJob \in jobs
  /\ \E p \in Posts : status[p] \in Terminal

\* C11: get_adapter raises exactly when the lower-cased name is not registered
\* and then changes nothing; otherwise it returns a new object (never one
\* returned before) of the registered class, carrying the given credentials,
\* not logged in and without a browser; list_platforms holds every
\* registered name
C11_RegistryLookup ==
  /\ [](last.op = "get_adapter" =>
          LET cls == registry_adapters[lower(last.args[1])]
          IN /\ last.raised <=> cls = NoClass
             /\ ~last.raised =>
                  /\ last.result = Len(heap)
                  /\ heap[last.result] = NewAdapter(cls, last.args[2], last.args[3]))
  /\ [](\A n \in registered_names : lower(n) \in list_platforms)
  /\ [][last'.op = "get_adapter" =>
          IF last'.raised
            THEN UNCHANGED <<heap, cookies, registry_adapters, registered_names>>
            ELSE /\ last'.result \notin 1..Len(heap)
                 /\ Len(heap') = Len(heap) + 1
                 /\ SubSeq(heap', 1, Len(heap)) = heap]_vars

\* a second adapter of a class, looked up under a differently cased name
C11_Witness ==
  /\ last.op = "get_adapter"
  /\ last.args[1] = "Twitter"
  /\ ~last.raised
  /\ last.result = 2
  /\ heap[1].cls = heap[2].cls
  /\ heap[1].username # heap[2].username

\* membership in a call's trace
Did(trace, what) == \E i \in 1..Len(trace) : trace[i] = what

\* how often a call's trace shows `what`
Count(trace, what) == Cardinality({i \in 1..Len(trace) : trace[i] = what})

\* C12 (as the code has it): login() never raises; when it returns success
\* the adapter is LoggedIn and its cookies were written to the cookie file
\* during the call; called on an adapter that is LoggedOut it returns success
\* exactly when the adapter ends LoggedIn, so a failure leaves it LoggedOut; a
\* failed login() on an adapter that is already LoggedIn leaves it LoggedIn
C12_LoginResult ==
  last.op = "login" =>
    /\ ~last.raised
    /\ last.result =>
         /\ heap[last.self].is_logged_in
         /\ Did(last.trace, "save_cookies")
         /\ cookies[heap[last.self].cls] = last.self
    /\ ~last.before.is_logged_in => (last.result <=> heap[last.self].is_logged_in)
    /\ (last.before.is_logged_in /\ ~last.result) => heap[last.self].is_logged_in

\* a first login that succeeded
C12_Witness ==
  /\ last.op = "login"
  /\ ~last.before.is_logged_in
  /\ ~last.before.browser
  /\ last.result
  /\ heap[last.self].is_logged_in

\* C12 (as the specification states it): login() returns success exactly
\* when the adapter ends in state LoggedIn, with the cookies persisted, and
\* on any failure the adapter's state is LoggedOut
C12_SuccessIffLoggedIn ==
  last.op = "login" =>
    /\ ~last.raised
    /\ last.result <=> heap[last.self].is_logged_in
    /\ last.result => Did(last.trace, "save_cookies")
    /\ ~last.result => ~heap[last.self].is_logged_in

\* C13 (stated as in the specification; the code violates it): post, like,
\* comment and follow never raise and return a boolean; login is attempted
\* exactly once when the adapter is not LoggedIn and not at all otherwise;
\* success is returned only if the action was performed on a logged-in session
C13_LazyLoginThenAct ==
  last.op \in WriteKinds =>
    /\ ~last.raised
    /\ last.result \in BOOLEAN
    /\ Count(last.trace, "login") = (IF last.before.is_logged_in THEN 0 ELSE 1)
    /\ Count(last.trace, last.op) <= 1
    /\ last.result => (heap[last.self].is_logged_in /\ Did(last.trace, last.op))

RECURSIVE IsSubsequence(_, _)
\* a is b with some entries left out, the order kept
IsSubsequence(a, b) ==
  IF a = <<>> THEN TRUE
  ELSE IF b = <<>> THEN FALSE
  ELSE IF Head(a) = Head(b) THEN IsSubsequence(Tail(a), Tail(b))
  ELSE IsSubsequence(a, Tail(b))

\* C14 (stated as in the specification; the code violates it): search never
\* raises and returns at most `limit` records, in the order the platform
\* shows them, each carrying a username and a text
C14_SearchRecords ==
  last.op = "search" =>
    /\ ~last.raised
    /\ Len(last.result) <= last.args[1]
    /\ IsSubsequence([i \in 1..Len(last.result) |-> last.result[i].of], last.args[2])
    /\ \A i \in 1..Len(last.result) :
         {"username", "text"} \subseteq DOMAIN last.result[i]

\* C16 (stated as in the specification; the code violates it): after
\* logout() the adapter holds no browser, context or page and is LoggedOut,
\* and the cookies of a session that was open were written before the
\* browser was closed
C16_LogoutReleases ==
  last.op = "logout" =>
    /\ ~heap[last.self].browser
    /\ ~heap[last.self].context
    /\ ~heap[last.self].page
    /\ ~heap[last.self].is_logged_in
    /\ last.before.context => last.trace = <<"save_cookies", "browser.close">>

\* C15 (stated as in the specification; the code violates it): a mention
\* processed by a completed check_and_respond is not returned to a later one
\* -- no mention a poll is processing has been handled by an earlier poll of
\* the same platform
C15_MentionProcessedOnce ==
  poll.pc = "process" =>
    \A i \in 1..Len(poll.mentions) :
      <<lower(poll.platform), poll.mentions[i].of>> \notin handled

\* C17 (stated as in the specification; the code violates it): an operation
\* that obtained an adapter releases it -- every adapter whose
\* check_and_respond call has returned holds no browser
C17_AdapterReleased ==
  \A a \in Objects :
    (poll.pc = "idle" \/ poll.self # a) => ~heap[a].browser

\* whether a FAQ matches a mention text, as the responder decides it
Matches(faq, text) ==
  _keyword_match(text, faq.question) \/ _keyword_match(text, faq.keywords)

\* the calls of _process_mention made so far by the poll in flight or by the
\* call that has just returned, each with the FAQ list it was given
Outcomes ==
  IF poll.pc = "process"
    THEN {<<poll.faqs, poll.outcomes[i]>> : i \in 1..Len(poll.outcomes)}
    ELSE IF last.op = "check_and_respond"
      THEN {<<last.faqs, last.outcomes[i]>> : i \in 1..Len(last.outcomes)}
      ELSE {}

\* C18: a mention that matches a FAQ is answered with the answer of the first
\* matching FAQ, verbatim, and the generation service is not called for it; a
\* mention that matches no FAQ has the generation service called exactly once
C18_FaqAnswerOrGeneration ==
  \A fo \in Outcomes :
    LET faqs == fo[1]
        o == fo[2]
        hits == {i \in 1..Len(faqs) : Matches(faqs[i], o.text)}
    IN IF hits # {}
         THEN /\ o.generated = 0
              /\ \E i \in hits :
                   /\ \A j \in hits : i <= j
                   /\ o.returned = <<faqs[i].answer>>
                   /\ \A e \in o.logged : e[4] = faqs[i].answer
         ELSE /\ o.generated = 1
              /\ o.returned \in {<<>>, <<Generated>>}

\* a returned poll in which the first mention was answered from the second
\* FAQ of the list and the generation service was called for the second
C18_Witness ==
  /\ last.op = "check_and_respond"
  /\ last.completed
  /\ last.faqs = <<FaqShip, FaqPrice>>
  /\ Len(last.outcomes) = 2
  /\ last.outcomes[1].text = "PRICE?"
  /\ last.outcomes[1].returned = <<FaqPrice.answer>>
  /\ last.outcomes[1].generated = 0
  /\ last.outcomes[2].generated = 1
  /\ last.outcomes[2].returned = <<Generated>>

\* C19: when the generation service fails for a mention, that mention is
\* skipped -- no response, no activity-log entry -- check_and_respond does not
\* raise, and the loop goes on: each step of the loop handles exactly one
\* more mention, and the call returns only after the last one, completed
C19_GenerationFailureSkipsMention ==
  [][poll.pc = "process" =>
       LET outs == IF poll'.pc = "process" THEN poll'.outcomes ELSE last'.outcomes
           o == outs[Len(outs)]
       IN /\ Len(outs) = Len(poll.outcomes) + 1
          /\ o.of = poll.mentions[Len(outs)].of
          /\ (o.returned = <<>> => o.logged = {} /\ activity' = activity)
          /\ (poll'.pc # "process" =>
                /\ last'.op = "check_and_respond"
                /\ ~last'.raised
                /\ last'.completed
                /\ Len(last'.outcomes) = Len(poll.mentions))]_poll

\* a returned poll whose first mention met a generation failure and whose
\* second mention was still answered and logged
C19_Witness ==
  /\ last.op = "check_and_respond"
  /\ last.completed
  /\ Len(last.outcomes) = 2
  /\ last.outcomes[1].generated = 1
  /\ last.outcomes[1].returned = <<>>
  /\ last.outcomes[1].logged = {}
  /\ last.outcomes[2].returned # <<>>
  /\ last.outcomes[2].logged \subseteq activity
  /\ last.outcomes[2].logged # {}

\* C20 (stated as in the specification; the code violates it): for every
\* mention a returned check_and_respond processed, the engagement queue holds
\* an item of that platform with the mention's text, status pending, and the
\* response or none
C20_EngagementItemPerMention ==
  last.op = "check_and_respond" =>
    \A i \in 1..Len(last.outcomes) :
      \E k \in 1..Len(engagement_queue) :
        /\ engagement_queue[k].platform = last.platform
        /\ engagement_queue[k].source_content = last.outcomes[i].text
        /\ engagement_queue[k].status = "pending"
        /\ engagement_queue[k].response = last.outcomes[i].returned

\* the adapter calls of the check_and_respond in flight, or of the one that
\* has just returned
PollTrace ==
  IF poll.pc # "idle" THEN poll.trace
  ELSE IF last.op = "check_and_respond" THEN last.trace ELSE <<>>

\* C21: a poll cycle sends nothing to the platform -- during check_and_respond,
\* _process_mention included, the only calls made on the adapter are login
\* and get_mentions (with the cookie save of a login); post, comment, like
\* and follow are never invoked
C21_PollNeverWrites ==
  /\ \A i \in 1..Len(PollTrace) :
       /\ PollTrace[i] \notin WriteKinds
       /\ PollTrace[i] \in {"login", "save_cookies", "get_mentions"}
  /\ \A fo \in Outcomes : fo[2].sent = <<>>

\* a returned poll that logged in, read two mentions and produced a response
\* for each
C21_Witness ==
  /\ last.op = "check_and_respond"
  /\ last.completed
  /\ Did(last.trace, "login")
  /\ Did(last.trace, "get_mentions")
  /\ Len(last.outcomes) = 2
  /\ \A i \in 1..2 : last.outcomes[i].returned # <<>>

\* the marker a cursor would take from a mention
Marker(mention) == <<"mention", mention.of>>

\* C22 (stated as in the specification; the code violates it): after a
\* completed poll that processed mentions, the cursor of the platform is the
\* marker of the most recent mention processed
C22_CursorIsLastMention ==
  (last.op = "check_and_respond" /\ last.completed /\ last.mentions # <<>>) =>
    last_check[last.platform] = Marker(last.mentions[Len(last.mentions)])

\* C23 (stated as in the specification; the code violates it): a failure
\* while polling a platform is contained in the check_and_respond call -- the
\* call returns normally
C23_PollFailureContained ==
  last.op = "check_and_respond" => ~last.raised

\* C24 (stated as in the specification; the code violates it): a
\* check_and_respond call obtains an adapter only while the responder is
\* running and only with a username and a password
C24_PollsOnlyWhileRunning ==
  [][Len(heap') > Len(heap) =>
       /\ ar_is_running
       /\ heap'[Len(heap')].username # ""
       /\ heap'[Len(heap')].password # ""]_vars

\* the score of the i-th FAQ of the last find_matching_faq call
ScoreOf(i) == combined_score(last.query, last.faqs[i])

Configured(faq_keywords) ==
  SelectSeq([i \in 1..Len(Split(faq_keywords, ",")) |->
               Lower(Strip(Split(faq_keywords, ",")[i]))],
            LAMBDA kw : kw # <<>>)

\* C26 (stated as in the specification; the code violates it): keywordScore
\* is the number of configured keywords occurring in the lower-cased query
\* over the number of configured keywords -- 0 when there is no keyword or
\* none occurs, positive when one occurs, 1 when all occur, within [0, 1]
C26_KeywordScore ==
  last.op = "_calculate_keyword_score" =>
    LET kws == Configured(last.faq_keywords)
        hits == {i \in 1..Len(kws) : IsIn(kws[i], Lower(last.query))}
        r == last.result
    IN /\ r[2] > 0 /\ 0 <= r[1] /\ r[1] <= r[2]
       /\ r[1] * Len(kws) = Cardinality(hits) * r[2]
       /\ (hits = {}) <=> (r[1] = 0)
       /\ (kws # <<>> /\ Cardinality(hits) = Len(kws)) => r[1] = r[2]

\* T(s): the maximal runs of non-space characters of the lower-cased text
TokenSet(s) ==
  LET t == Lower(s)
      inked(i) == i \in 1..Len(t) /\ t[i] # " "
  IN {SubSeq(t, i, j) : <<i, j>> \in
        {ij \in (1..Len(t)) \X (1..Len(t)) :
           /\ ij[1] <= ij[2]
           /\ \A k \in ij[1]..ij[2] : inked(k)
           /\ ~inked(ij[1] - 1) /\ ~inked(ij[2] + 1)}}

\* C27: similarityScore(query, question) is |T(query) /\ T(question)| over
\* the larger of |T(query)| and |T(question)|, 0 when either set is empty,
\* positive when the texts share a token, symmetric, and within [0, 1]
C27_TextSimilarity ==
  last.op = "_calculate_text_similarity" =>
    LET Tq == TokenSet(last.query)
        Tk == TokenSet(last.question)
        larger == IF Cardinality(Tq) >= Cardinality(Tk) THEN Cardinality(Tq)
                  ELSE Cardinality(Tk)
        r == last.result
        back == _calculate_text_similarity(last.question, last.query)
    IN /\ r[2] > 0 /\ 0 <= r[1] /\ r[1] <= r[2]
       /\ (Tq = {} \/ Tk = {}) => r[1] = 0
       /\ (Tq # {} /\ Tk # {}) => r[1] * larger = Cardinality(Tq \cap Tk) * r[2]
       /\ (Tq \cap Tk # {}) => r[1] > 0
       /\ r[1] * back[2] = back[1] * r[2]

\* a call on two texts of different sizes that share one token, in another
\* case and another place
C27_Witness ==
  /\ last.op = "_calculate_text_similarity"
  /\ last.query = <<"A", " ", "b">>
  /\ last.question = <<"a">>
  /\ last.result = <<1, 2>>

\* C28: the relevance score is min(1, 0.2 x keywords in the lower-cased text
\* + 0.3 if the query occurs in it + 0.1 if it occurs more than once), in
\* tenths here; it lies in [0, 1], is 0 for an empty text, and is at least 0.5
\* when the text contains a keyword and the query
C28_RelevanceScore ==
  last.op = "_calculate_relevance_score" =>
    LET t == Lower(last.text)
        q == Lower(last.query)
        present == {k \in 1..Len(product_keywords) :
                      \E i \in 0..Len(t) :
                        /\ i + Len(product_keywords[k]) <= Len(t)
                        /\ SubSeq(t, i + 1, i + Len(product_keywords[k]))
                             = product_keywords[k]}
        at == {i \in 0..Len(t) : i + Len(q) <= Len(t) /\ SubSeq(t, i + 1, i + Len(q)) = q}
        twice == \E i, j \in at : i + Len(q) <= j /\ i < j
        sum == 2 * Cardinality(present) + (IF at # {} THEN 3 ELSE 0)
               + (IF twice THEN 1 ELSE 0)
        r == last.result
    IN /\ 0 <= r /\ r <= 10
       /\ last.text = <<>> => r = 0
       /\ last.text # <<>> => r = (IF sum < 10 THEN sum ELSE 10)
       /\ (present # {} /\ at # {}) => r >= 5

\* a text with four keywords and the query twice: the sum is above 1 and the
\* score is 1
C28_Witness ==
  /\ last.op = "_calculate_relevance_score"
  /\ last.text = Text(<<"linktree", "alternative", "biolink", "influencer">>)
  /\ last.query = Text(<<"tree">>)
  /\ last.result = 10
  /\ relevance_score_unclamped(last.text, last.query) = 11

\* where a username first occurs in the raw results of the last run, 0 if
\* nowhere
FirstOf(username) ==
  LET at == {i \in 1..Len(last.all_leads) : last.all_leads[i].username = username}
  IN IF at = {} THEN 0 ELSE CHOOSE i \in at : \A j \in at : i <= j

\* C29: for every username of the raw results the list search_leads returns
\* has at most one lead with that username, and that lead is the first
\* occurrence in search order, whatever the later occurrences score
C29_DedupKeepsFirst ==
  last.op = "search_leads" =>
    \A i \in 1..Len(last.result) :
      /\ \A j \in 1..Len(last.result) :
           last.result[i].username = last.result[j].username => i = j
      /\ FirstOf(last.result[i].username) # 0
      /\ last.result[i] = last.all_leads[FirstOf(last.result[i].username)]

\* a run whose raw results hold a username twice, the later occurrence with
\* the higher score, and whose result holds the earlier one
C29_Witness ==
  /\ last.op = "search_leads"
  /\ last.all_leads = <<Lead("a", 0), Lead("b", 2), Lead("a", 5)>>
  /\ last.result = <<Lead("b", 2), Lead("a", 0)>>

\* C30: the list search_leads returns has at most TopLeads leads, is ordered
\* by non-increasing score, and no lead left out after deduplication has a
\* strictly higher score than a returned one
C30_TopByScore ==
  last.op = "search_leads" =>
    LET r == last.result
        kept == {r[i].username : i \in 1..Len(r)}
        left_out == {i \in 1..Len(last.all_leads) :
                       /\ last.all_leads[i].username # ""
                       /\ FirstOf(last.all_leads[i].username) = i
                       /\ last.all_leads[i].username \notin kept}
    IN /\ Len(r) <= TopLeads
       /\ \A i \in 1..(Len(r) - 1) : r[i].relevance_score >= r[i + 1].relevance_score
       /\ \A i \in left_out, k \in 1..Len(r) :
            last.all_leads[i].relevance_score <= r[k].relevance_score

\* a run with more than TopLeads usernames: TopLeads leads are returned, of
\* different scores, and a lead is left out
C30_Witness ==
  /\ last.op = "search_leads"
  /\ Len(last.result) = TopLeads
  /\ last.result[1].relevance_score > last.result[TopLeads].relevance_score
  /\ \E i \in 1..Len(last.all_leads) :
       /\ last.all_leads[i].username # ""
       /\ \A k \in 1..TopLeads : last.result[k].username # last.all_leads[i].username

\* C36 (stated as in the specification; the code violates it): every post
\* stored with status 'scheduled' has a fire-at timestamp, so that the sweep
\* can select it once it is due
C36_ScheduledHasFireAt ==
  \A p \in Posts : status[p] = "scheduled" => scheduled_at[p] # None_

\* C37: cancel_scheduled_post(P) changes the job store only, and there only
\* the one-shot job of P: status, fire-at and platform of every post, the
\* runs, the clock and the activity log stay as they are, so a post the sweep
\* would select before the cancel is one it selects after it
C37_CancelChangesJobsOnly ==
  [][\A p \in Posts :
       (lastOp'[1] = "cancel_scheduled_post" /\ lastOp'[2] = p)
         => /\ UNCHANGED <<status, scheduled_at, platform, runs, now, running,
                           is_running, activity>>
            /\ jobs' = jobs \ JobsOf(jobs, JobId(p))
            /\ \A q \in Posts : IsDue(q) <=> IsDue(q)']_vars

\* the one-shot job of a post that is scheduled with a fire-at not in the
\* future has just been cancelled while the sweep job is registered
C37_Witness ==
  \E p \in Posts :
    /\ lastOp = <<"cancel_scheduled_post", p, 1>>
    /\ IsDue(p)
    /\ running /\ SweepJob \in jobs

\* C38: a cursor changes only in the step that ends the try block of a
\* check_and_respond call, and then it is the cursor of that call's platform:
\* the call changes no other platform's cursor, and a call that returns early
\* (no credentials, no product) or that fails (the registry or the data store
\* raises) leaves every cursor as it was
C38_CursorFrame ==
  [][\A pf \in PollPlatforms :
       last_check'[pf] # last_check[pf]
         => /\ poll.pc # "idle" /\ poll.platform = pf
            /\ poll'.pc = "idle"
            /\ last'.op = "check_and_respond" /\ last'.platform = pf
            /\ last'.completed /\ ~last'.raised]_vars

\* a call for an unsupported platform has returned without completing, after
\* a completed poll of twitter: twitter's cursor is set, the other is not
C38_Witness ==
  /\ last.op = "check_and_respond"
  /\ last.platform = "myspace" /\ last.product_id \in Products
  /\ ~last.completed /\ ~last.raised
  /\ last_check["myspace"] = NoCursor
  /\ last_check["twitter"] # NoCursor
  /\ last_check["Instagram"] = NoCursor

\* what FAQMatcher.find_matching_faq returns for a mention text and the FAQ
\* list of a poll: the index of the FAQ, 0 for None
MatcherChoice(faqs, text) ==
  LET rows == [i \in 1..Len(faqs) |->
                 [question |-> Chars(faqs[i].question),
                  keywords |-> Chars(faqs[i].keywords), answer |-> faqs[i].answer]]
      found == find_matching_faq(rows, Chars(text))
  IN IF found = <<>> THEN 0 ELSE found[1]

\* C35 (stated as in the specification; the code violates it): for every
\* mention the responder answers from a FAQ exactly when the FAQ matcher
\* returns a match for the mention text and the same FAQ list, and then from
\* the FAQ the matcher returns
C35_ResponderAgreesWithMatcher ==
  \A fo \in Outcomes : fo[2].faq = MatcherChoice(fo[1], fo[2].text)

\* C34 (stated as in the specification; the code violates it): after a crash
\* at any point of a save_cookies call every cookie file is absent, as before
\* the first write, or holds the complete blob of one writer: it is never
\* empty or cut short
C34_CookieWriteAtomic ==
  poll.pc = "crashed" => \A c \in Classes : cookies[c] >= 0

\* the query list the specification gives for a caller's query: the query
\* when it is not empty, then domain keywords, five in all
QueryList(query) ==
  IF query # <<>> THEN <<query>> \o SubSeq(product_keywords, 1, 4)
  ELSE SubSeq(product_keywords, 1, 5)

\* the searches of a run so far follow the query list in order, one adapter
\* search per query with limit 10 (none when the platform has no adapter),
\* no search gives more than 10 results
SearchesFollow(run) ==
  /\ Len(run.attempts) <= 5
  /\ \A i \in 1..Len(run.attempts) : run.attempts[i] = QueryList(run.query)[i]
  /\ run.searches = IF run.platform \in Registered
                      THEN [i \in 1..Len(run.attempts) |-> <<run.attempts[i], 10>>]
                      ELSE <<>>
  /\ \A i \in 1..Len(run.results) : Len(run.results[i]) <= 10

\* C31: a discovery run issues at most five adapter searches, each with
\* limit 10 and at most 10 results: one per query of the query list, in
\* order, and a run that returns has gone through the whole list
C31_AtMostFiveSearches ==
  /\ poll.pc = "search" => SearchesFollow(poll)
  /\ (last.op = "search_leads" /\ ~last.raised)
       => SearchesFollow(last) /\ last.attempts = QueryList(last.query)

\* a returned run on twitter with a query of the caller: five searches, one
\* of them cut to 10 results
C31_Witness ==
  /\ last.op = "search_leads" /\ ~last.raised
  /\ last.platform = "twitter" /\ last.query = Chars("hello")
  /\ Len(last.searches) = 5
  /\ last.searches[1] = <<Chars("hello"), 10>>
  /\ \E i \in 1..5 : Len(last.results[i]) = 10

\* C32 (stated as in the specification; the code violates it): when the
\* generation service fails to give search suggestions, search_leads does
\* not raise and still makes its searches
C32_SuggestionFailureTolerated ==
  (last.op = "search_leads" /\ ~last.suggested)
    => ~last.raised /\ Len(last.attempts) = 5

\* C33: search_leads and search_leads_on_platform invoke no write method of
\* an adapter (follow, like, comment, post); one is invoked only by
\* engage_with_lead, for "follow"; a search that fails gives the empty result
\* for its query and the run goes on through the whole query list
C33_DiscoveryNeverEngages ==
  /\ poll.pc = "search"
       => /\ poll.calls \cap WriteKinds = {}
          /\ \A i \in 1..Len(poll.failed) : poll.failed[i] => poll.results[i] = <<>>
  /\ (last.op = "search_leads" /\ ~last.raised)
       => /\ last.calls \cap WriteKinds = {}
          /\ \A i \in 1..Len(last.failed) : last.failed[i] => last.results[i] = <<>>
          /\ Len(last.attempts) = 5 /\ Len(last.results) = 5
  /\ last.op = "search_leads_on_platform"
       => /\ last.calls \cap WriteKinds = {}
          /\ ~last.raised
          /\ last.failed => last.result = <<>>
  /\ last.op = "engage_with_lead"
       => /\ last.calls \cap WriteKinds \subseteq {"follow"}
          /\ last.action # "follow" => last.calls \cap WriteKinds = {}

\* a returned run whose second search failed and whose third found leads
C33_Witness ==
  /\ last.op = "search_leads" /\ ~last.raised
  /\ last.failed[2] /\ last.results[2] = <<>>
  /\ ~last.failed[3] /\ last.results[3] # <<>>
  /\ "search" \in last.calls

\* C39: every lead search_leads returns is one of the raw results and has a
\* non-empty username; a platform whose search records carry no username
\* (Facebook) contributes no lead
C39_NoNamelessLead ==
  (last.op = "search_leads" /\ ~last.raised)
    => /\ \A k \in 1..Len(last.result) :
            /\ last.result[k].username # ""
            /\ \E i \in 1..Len(last.all_leads) : last.all_leads[i] = last.result[k]
       /\ last.platform = "facebook" => last.result = <<>>

\* a returned run on twitter whose raw results hold a result without a user
\* name, and which returns leads
C39_Witness ==
  /\ last.op = "search_leads" /\ ~last.raised
  /\ last.platform = "twitter"
  /\ \E i \in 1..Len(last.all_leads) : last.all_leads[i].username = ""
  /\ last.result # <<>>

====
